---- MODULE Spec2Model ----
(***************************************************************************)
(* Truck-Loader: the packing and load-balancing engine                     *)
(* (client/src/lib/truck-configs.ts, class PackingAlgorithm).              *)
(*                                                                         *)
(* One optimize call is modelled as a state machine whose steps are the    *)
(* iterations of the engine's loops; pc is the position in the code.       *)
(*                                                                         *)
(* Lengths are kept in hundredths of a centimetre, so that the half        *)
(* diameter offsets and the 0.866 row pitch of the tank strategy are       *)
(* exact integers.  Weights and axle loads are exact rationals [n, d].     *)
(*                                                                         *)
(* The record store of the server (server/routes.ts, class MemStorage and  *)
(* the routes in front of it) is modelled next to the engine, with one     *)
(* action per route.  The planner page (Home, ItemInputForm,               *)
(* EditableItemRow) is modelled in front of both, with one action per      *)
(* handler.                                                                *)
(***************************************************************************)
EXTENDS Integers, Sequences, FiniteSets, TLC

VARIABLES
    input,          \* the OptimizationInput of the current call
    calls,          \* number of optimize calls started so far
    mode,           \* how the current call's input relates to the previous one
    prev,           \* the output returned by the previous call (or NoOutput)
    alone,          \* the first call's input and output, kept by the caller
    pc,             \* position inside optimize
    itemGroups,     \* groupItemsByType(items), in Object.entries order
    gi,             \* index of the group being packed
    placements,     \* the call-scoped ItemPlacement[]
    result,         \* the OptimizationOutput under construction
    strategy,       \* packEuropallets: strategy.configurations
    ci,             \* packEuropallets: index of the configuration
    row,            \* packEuropallets: row counter of the configuration
    col,            \* packEuropallets / packTanks: column counter
    currentX,       \* packEuropallets / packGenericItems
    currentY,       \* all strategies
    itemIndex,      \* next unit of the group
    itemsInThisRow, \* packEuropallets
    rowIndex,       \* packTanks
    rowHeight,      \* packGenericItems
    remaining,      \* packGenericItems: units the group could not place
    this_items,                 \* MemStorage: Map<number, Item>
    this_optimizationResults,   \* MemStorage: Map<number, OptimizationResult>
    this_currentItemId,         \* MemStorage
    this_currentResultId,       \* MemStorage
    reply,          \* the last response of the server
    itemIds,        \* the ids createItem has returned, in order
    resultIds,      \* the ids createOptimizationResult has returned, in order
    selectedTruckType,  \* Home: the chosen vehicle type, "" while none
    home_items,         \* Home: the data of the query /api/items
    optimizationResult, \* Home: the displayed output (NoOutput for null)
    isOptimizing        \* Home: optimizeLoadingPlan is running

storeVars == <<this_items, this_optimizationResults, this_currentItemId,
               this_currentResultId, reply, itemIds, resultIds>>

\* the state of the planner page
pageVars == <<selectedTruckType, home_items, optimizationResult,
              isOptimizing>>

vars == <<input, calls, mode, prev, alone, pc, itemGroups, gi, placements,
          result, strategy, ci, row, col, currentX, currentY, itemIndex,
          itemsInThisRow, rowIndex, rowHeight, remaining, storeVars,
          pageVars>>

engineVars == <<input, calls, mode, prev, alone, pc, itemGroups, gi,
                placements, result, strategy, ci, row, col, currentX,
                currentY, itemIndex, itemsInThisRow, rowIndex, rowHeight,
                remaining>>

\* what lives outside an optimize call: the caller's state, the server's
\* and the page's
callVars == <<input, calls, mode, prev, alone, storeVars, pageVars>>
palletVars == <<strategy, ci, row, itemsInThisRow>>

----------------------------------------------------------------------------
(* Arithmetic helpers                                                      *)

cm(n) == n * 100

Min(a, b) == IF a <= b THEN a ELSE b
Max(a, b) == IF a >= b THEN a ELSE b
Abs(a) == IF a < 0 THEN -a ELSE a

\* Euclid's algorithm; a function, so that its arguments are values
gcd[a \in Nat, b \in Nat] == IF b = 0 THEN a ELSE gcd[b, a % b]

GCD(a, b) == gcd[a, b]

\* exact rational n/d in lowest terms, d > 0
Rat(n, d) ==
    LET g == GCD(Abs(n), d)
    IN  IF g = 0 THEN [n |-> 0, d |-> 1] ELSE [n |-> n \div g, d |-> d \div g]

Rationals == [n : Int, d : Nat \ {0}]

RatZero == [n |-> 0, d |-> 1]

ratAdd[a \in Rationals, b \in Rationals] ==
    LET l == (a.d \div GCD(a.d, b.d)) * b.d
    IN  Rat(a.n * (l \div a.d) + b.n * (l \div b.d), l)

RatAdd(a, b) == ratAdd[a, b]

RatSub(a, b) == RatAdd(a, [n |-> -b.n, d |-> b.d])

\* a * r, cross-reduced before multiplying
ratMul[a \in Rationals, r \in Rationals] ==
    LET g1 == GCD(Abs(a.n), r.d)
        g2 == GCD(Abs(r.n), a.d)
        h1 == IF g1 = 0 THEN 1 ELSE g1
        h2 == IF g2 = 0 THEN 1 ELSE g2
    IN  Rat((a.n \div h1) * (r.n \div h2), (a.d \div h2) * (r.d \div h1))

\* a * (p / q), p and q integers, q > 0
RatScale(a, p, q) == ratMul[a, Rat(p, q)]

RatLess(a, b) == RatSub(a, b).n < 0

\* a variant that drops the fraction
Round_Down(p, q) == p \div q

\* Math.round of the non-negative rational p/q: floor(p/q + 1/2)
Round(p, q) == (2 * p + q) \div (2 * q)

\* a variant that drops the first unplaced unit
Slice_SkipOne(s, from) == SubSeq(s, from + 2, Len(s))

\* items.slice(from), 0-based
Slice(s, from) == SubSeq(s, from + 1, Len(s))

----------------------------------------------------------------------------
(* Geometry catalog                                                        *)

ITEM_CONFIGURATIONS ==
    [ pallet |-> [ europallet |-> [width |-> cm(120), height |-> cm(80)],
                   custom     |-> [width |-> cm(100), height |-> cm(100)] ],
      tank   |-> [ small |-> [diameter |-> cm(60)],
                   big   |-> [diameter |-> cm(100)] ],
      EWC    |-> ( "800x1200"  :> [width |-> cm(80),  height |-> cm(120)] @@
                   "1000x1200" :> [width |-> cm(100), height |-> cm(120)] ) ]

NoDimensions == [width |-> -1, height |-> -1]

\* a variant that falls back to the custom pallet footprint when the
\* (type, subtype) pair is not in the catalog
getItemDimensions_Default(item) ==
    IF item.type \in DOMAIN ITEM_CONFIGURATIONS
       /\ item.subtype \in DOMAIN ITEM_CONFIGURATIONS[item.type]
    THEN IF item.type = "tank"
         THEN [width  |-> ITEM_CONFIGURATIONS[item.type][item.subtype].diameter,
               height |-> ITEM_CONFIGURATIONS[item.type][item.subtype].diameter]
         ELSE [width  |-> ITEM_CONFIGURATIONS[item.type][item.subtype].width,
               height |-> ITEM_CONFIGURATIONS[item.type][item.subtype].height]
    ELSE [width  |-> ITEM_CONFIGURATIONS.pallet.custom.width,
          height |-> ITEM_CONFIGURATIONS.pallet.custom.height]

getItemDimensions(item) ==
    IF item.type \notin DOMAIN ITEM_CONFIGURATIONS THEN NoDimensions
    ELSE LET typeConfig == ITEM_CONFIGURATIONS[item.type]
         IN  IF item.subtype \notin DOMAIN typeConfig THEN NoDimensions
             ELSE IF item.type = "tank"
                  THEN [width  |-> typeConfig[item.subtype].diameter,
                        height |-> typeConfig[item.subtype].diameter]
                  ELSE [width  |-> typeConfig[item.subtype].width,
                        height |-> typeConfig[item.subtype].height]

----------------------------------------------------------------------------
(* Occupancy index                                                         *)

rectanglesOverlap(x1, y1, w1, h1, x2, y2, w2, h2) ==
    ~(x1 >= x2 + w2 \/ x2 >= x1 + w1 \/ y1 >= y2 + h2 \/ y2 >= y1 + h1)

isOccupied(x, y, width, height, ps) ==
    \E i \in 1..Len(ps) :
        rectanglesOverlap(x, y, width, height,
                          ps[i].x, ps[i].y, ps[i].width, ps[i].height)

\* a variant without the collision loop
canPlaceAt_NoCollision(x, y, width, height, ps, truckConfig) ==
    ~(x + width > truckConfig.width \/ y + height > truckConfig.length)

\* a variant without the boundary check
canPlaceAt_NoBounds(x, y, width, height, ps, truckConfig) ==
    ~\E i \in 1..Len(ps) :
        rectanglesOverlap(x, y, width, height,
                          ps[i].x, ps[i].y, ps[i].width, ps[i].height)

\* the weight standing on the floor, in kg, rounded down
RECURSIVE LoadOf(_)
LoadOf(ps) ==
    IF ps = <<>> THEN 0
    ELSE Head(ps).weight.n \div Head(ps).weight.d + LoadOf(Tail(ps))

\* a variant that refuses further cargo once the payload limit is reached
canPlaceAt_WithinMaxWeight(x, y, width, height, ps, truckConfig) ==
    IF x + width > truckConfig.width \/ y + height > truckConfig.length
    THEN FALSE
    ELSE /\ LoadOf(ps) < truckConfig.maxWeight
         /\ ~\E i \in 1..Len(ps) :
                rectanglesOverlap(x, y, width, height,
                                  ps[i].x, ps[i].y, ps[i].width, ps[i].height)

canPlaceAt(x, y, width, height, ps, truckConfig) ==
    IF x + width > truckConfig.width \/ y + height > truckConfig.length
    THEN FALSE
    ELSE ~\E i \in 1..Len(ps) :
            rectanglesOverlap(x, y, width, height,
                              ps[i].x, ps[i].y, ps[i].width, ps[i].height)

RECURSIVE MaxExtent(_, _)
MaxExtent(ps, maxY) ==
    IF ps = <<>> THEN maxY
    ELSE MaxExtent(Tail(ps), Max(maxY, Head(ps).y + Head(ps).height))

\* a variant that starts every group at the front wall
getNextAvailableY_Front(ps, truckConfig) == 0

getNextAvailableY(ps, truckConfig) ==
    IF Len(ps) = 0 THEN 0 ELSE MaxExtent(ps, 0)

getZone(x, truckConfig) ==
    IF 2 * x < truckConfig.width THEN "Front" ELSE "Rear"

----------------------------------------------------------------------------
(* Grouping and expansion                                                  *)

\* a variant that keys the groups by type alone
GroupKey_TypeOnly(item) == item.type

GroupKey(item) == item.type \o "_" \o item.subtype

ExpandItem(item) ==
    [i \in 1..item.number_of_items |->
        [item EXCEPT !.number_of_items = 1,
                     !.weight_kg = Rat(item.weight_kg, item.number_of_items)]]

\* a variant that puts the group of a new key in front of the others
AddToGroups_NewFirst(groups, item) ==
    LET key == GroupKey(item)
        known == \E g \in 1..Len(groups) : groups[g].key = key
        gs == IF known THEN groups
              ELSE << [key |-> key, items |-> <<>>] >> \o groups
    IN  [g \in 1..Len(gs) |->
            IF gs[g].key = key
            THEN [gs[g] EXCEPT !.items = @ \o ExpandItem(item)]
            ELSE gs[g]]

\* groups[key].push(...) for every unit of item; a new key is appended last
AddToGroups(groups, item) ==
    LET key == GroupKey(item)
        known == \E g \in 1..Len(groups) : groups[g].key = key
        gs == IF known THEN groups
              ELSE Append(groups, [key |-> key, items |-> <<>>])
    IN  [g \in 1..Len(gs) |->
            IF gs[g].key = key
            THEN [gs[g] EXCEPT !.items = @ \o ExpandItem(item)]
            ELSE gs[g]]

RECURSIVE GroupFrom(_, _)
GroupFrom(groups, items) ==
    IF items = <<>> THEN groups
    ELSE GroupFrom(AddToGroups(groups, Head(items)), Tail(items))

groupItemsByType(items) == GroupFrom(<<>>, items)

----------------------------------------------------------------------------
(* Pallet strategy table                                                   *)

\* Math.ceil(count / 0) for count >= 1
Infinity == -1

palletLength == cm(120)
palletWidth == cm(80)

Config(count, rows, itemsPerRow, orientation) ==
    [count |-> count, rows |-> rows, itemsPerRow |-> itemsPerRow,
     orientation |-> orientation]

CeilDiv(count, across) ==
    IF across = 0 THEN Infinity ELSE (count + across - 1) \div across

\* a variant of the table with the three-pallet row in long orientation
calculatePalletStrategy_ThreeLong(count, truckConfig) ==
    LET shortAcross == truckConfig.width \div palletWidth
        longAcross  == truckConfig.width \div palletLength
    IN  CASE count = 3 -> << Config(3, 1, 3, "long") >>
          [] count = 4 -> << Config(4, 2, 2, "long") >>
          [] OTHER -> << Config(count, CeilDiv(count, Max(shortAcross, 1)),
                                Max(shortAcross, 1), "short") >>

\* a variant of the table with the four pallets in one row
calculatePalletStrategy_FourInARow(count, truckConfig) ==
    LET shortAcross == truckConfig.width \div palletWidth
        longAcross  == truckConfig.width \div palletLength
    IN  CASE count = 3 -> << Config(3, 1, 3, "short") >>
          [] count = 4 -> << Config(4, 1, 4, "long") >>
          [] OTHER -> << Config(count, CeilDiv(count, Max(shortAcross, 1)),
                                Max(shortAcross, 1), "short") >>

\* a variant whose computed best fit is a single row
calculatePalletStrategy_OneRow(count, truckConfig) ==
    CASE count = 3 -> << Config(3, 1, 3, "short") >>
      [] count = 4 -> << Config(4, 2, 2, "long") >>
      [] count = 5 -> << Config(2, 1, 2, "long"), Config(3, 1, 3, "short") >>
      [] count = 6 -> << Config(6, 2, 3, "short") >>
      [] count = 7 -> << Config(2, 1, 2, "long"), Config(5, 2, 3, "short") >>
      [] count = 8 -> << Config(4, 2, 2, "long"), Config(3, 1, 3, "short") >>
      [] count = 9 -> << Config(9, 3, 3, "short") >>
      [] count = 33 -> << Config(32, 16, 2, "short"), Config(1, 1, 1, "long") >>
      [] OTHER ->
            LET shortAcross == truckConfig.width \div palletWidth
                longAcross  == truckConfig.width \div palletLength
            IN  IF shortAcross >= 2
                THEN << Config(count, 1, shortAcross, "short") >>
                ELSE << Config(count, 1, longAcross, "long") >>

calculatePalletStrategy(count, truckConfig) ==
    CASE count = 3 -> << Config(3, 1, 3, "short") >>
      [] count = 4 -> << Config(4, 2, 2, "long") >>
      [] count = 5 -> << Config(2, 1, 2, "long"), Config(3, 1, 3, "short") >>
      [] count = 6 -> << Config(6, 2, 3, "short") >>
      [] count = 7 -> << Config(2, 1, 2, "long"), Config(5, 2, 3, "short") >>
      [] count = 8 -> << Config(4, 2, 2, "long"), Config(3, 1, 3, "short") >>
      [] count = 9 -> << Config(9, 3, 3, "short") >>
      [] count = 33 -> << Config(32, 16, 2, "short"), Config(1, 1, 1, "long") >>
      [] OTHER ->
            LET shortAcross == truckConfig.width \div palletWidth
                longAcross  == truckConfig.width \div palletLength
            IN  IF shortAcross >= 2
                THEN << Config(count, CeilDiv(count, shortAcross),
                               shortAcross, "short") >>
                ELSE << Config(count, CeilDiv(count, longAcross),
                               longAcross, "long") >>

\* row < config.rows
RowLess(r, rows) == rows = Infinity \/ r < rows

\* row++ ; when config.rows is Infinity the counter is compared with
\* nothing else, so its value is not tracked
NextRow(r, rows) == IF rows = Infinity THEN r ELSE r + 1

\* currentY += rowHeight ; once currentY is beyond the vehicle every test
\* currentY + height <= length fails whatever its value, so it is not
\* advanced further
AdvanceY(y, h, truckConfig) ==
    IF y > truckConfig.length THEN y ELSE y + h

----------------------------------------------------------------------------
(* The result accumulator                                                  *)

AirbagUsage(standard, small, threeD, stabilizer) ==
    "standard" :> standard @@ "small" :> small @@ "3d" :> threeD @@
    "pallet_stabilizer" :> stabilizer

NewOutput ==
    [ placedItems      |-> <<>>,
      remainingItems   |-> <<>>,
      usedAirbags      |-> AirbagUsage(0, 0, 0, 0),
      totalWeight      |-> RatZero,
      frontAxleLoad    |-> RatZero,
      rearAxleLoad     |-> RatZero,
      spaceUtilization |-> 0,
      weightUtilization |-> 0,
      loadBalance      |-> "Optimal",
      gaps             |-> <<>> ]

NoOutput == [NewOutput EXCEPT !.loadBalance = "none"]

ItemPlacement(item, x, y, width, height) ==
    [x |-> x, y |-> y, width |-> width, height |-> height,
     weight |-> item.weight_kg, item |-> item]

\* a variant that records the placed item without adding its weight
PushPlaced_NoWeight(res, item, x, y, width, height, truckConfig) ==
    [res EXCEPT
        !.placedItems = Append(@,
            [item_id |-> item.item_id, type |-> item.type,
             subtype |-> item.subtype, x |-> x, y |-> y,
             width |-> width, height |-> height,
             weight |-> item.weight_kg,
             zone |-> getZone(x, truckConfig)])]

\* result.totalWeight += item.weight_kg; result.placedItems.push({...})
PushPlaced(res, item, x, y, width, height, truckConfig) ==
    [res EXCEPT
        !.totalWeight = RatAdd(@, item.weight_kg),
        !.placedItems = Append(@,
            [item_id |-> item.item_id, type |-> item.type,
             subtype |-> item.subtype, x |-> x, y |-> y,
             width |-> width, height |-> height,
             weight |-> item.weight_kg,
             zone |-> getZone(x, truckConfig)])]

\* result.remainingItems.push(...remainingFromGroup)
PushRemaining(res, items) ==
    [res EXCEPT !.remainingItems = @ \o items]

truck == input.truckConfig
group == itemGroups[gi].items
sampleItem == group[1]

----------------------------------------------------------------------------
(* optimize: prologue and group dispatch                                   *)

\* a variant whose leftover list outlives the call
Optimize_KeepsLeftovers ==
    /\ pc = "optimize"
    /\ result' = [NewOutput EXCEPT !.remainingItems = result.remainingItems]
    /\ itemGroups' = groupItemsByType(input.items)
    /\ placements' = <<>>
    /\ gi' = 1
    /\ pc' = "group"
    /\ UNCHANGED <<callVars, palletVars, col, currentX, currentY, itemIndex,
                   rowIndex, rowHeight, remaining>>

\* a variant whose placement list outlives the call
Optimize_SharedPlacements ==
    /\ pc = "optimize"
    /\ result' = NewOutput
    /\ itemGroups' = groupItemsByType(input.items)
    /\ gi' = 1
    /\ pc' = "group"
    /\ UNCHANGED <<callVars, placements, palletVars, col, currentX, currentY,
                   itemIndex, rowIndex, rowHeight, remaining>>

Optimize ==
    /\ pc = "optimize"
    /\ result' = NewOutput
    /\ itemGroups' = groupItemsByType(input.items)
    /\ placements' = <<>>
    /\ gi' = 1
    /\ pc' = "group"
    /\ UNCHANGED <<callVars, palletVars, col, currentX, currentY, itemIndex,
                   rowIndex, rowHeight, remaining>>

isEuropallet(item) == item.type = "pallet" /\ item.subtype = "europallet"

PackEuropallets ==
    /\ pc = "group"
    /\ gi <= Len(itemGroups)
    /\ isEuropallet(sampleItem)
    /\ strategy' = calculatePalletStrategy(Len(group), truck)
    /\ currentY' = getNextAvailableY(placements, truck)
    /\ itemIndex' = 0
    /\ ci' = 1
    /\ pc' = "palletConfig"
    /\ UNCHANGED <<callVars, itemGroups, gi, placements, result, row, col,
                   currentX, itemsInThisRow, rowIndex, rowHeight, remaining>>

PackTanks ==
    /\ pc = "group"
    /\ gi <= Len(itemGroups)
    /\ ~isEuropallet(sampleItem)
    /\ sampleItem.type = "tank"
    /\ IF getItemDimensions(sampleItem) = NoDimensions
       THEN /\ result' = PushRemaining(result, group)
            /\ gi' = gi + 1
            /\ pc' = "group"
            /\ UNCHANGED <<currentY, itemIndex, rowIndex>>
       ELSE /\ currentY' = getNextAvailableY(placements, truck)
            /\ itemIndex' = 0
            /\ rowIndex' = 0
            /\ pc' = "tankRow"
            /\ UNCHANGED <<result, gi>>
    /\ UNCHANGED <<callVars, itemGroups, placements, palletVars, col,
                   currentX, rowHeight, remaining>>

PackGenericItems ==
    /\ pc = "group"
    /\ gi <= Len(itemGroups)
    /\ ~isEuropallet(sampleItem)
    /\ sampleItem.type # "tank"
    /\ remaining' = <<>>
    /\ currentY' = getNextAvailableY(placements, truck)
    /\ rowHeight' = 0
    /\ itemIndex' = 0
    /\ pc' = "genericItem"
    /\ UNCHANGED <<callVars, itemGroups, gi, placements, result, palletVars,
                   col, currentX, rowIndex>>

----------------------------------------------------------------------------
(* packEuropallets                                                         *)

config == strategy[ci]
palletCount == Len(group)
palletW == IF config.orientation = "long" THEN palletLength ELSE palletWidth
palletH == IF config.orientation = "long" THEN palletWidth ELSE palletLength

PalletConfig ==
    /\ pc = "palletConfig"
    /\ IF /\ ci <= Len(strategy)
          /\ Min(config.count, Len(group) - itemIndex) > 0
       THEN /\ row' = 0
            /\ pc' = "palletRow"
            /\ UNCHANGED <<result, gi>>
       ELSE /\ result' = PushRemaining(result, Slice(group, itemIndex))
            /\ gi' = gi + 1
            /\ pc' = "group"
            /\ UNCHANGED row
    /\ UNCHANGED <<callVars, itemGroups, placements, strategy, ci, col,
                   currentX, currentY, itemIndex, itemsInThisRow, rowIndex,
                   rowHeight, remaining>>

PalletRow ==
    /\ pc = "palletRow"
    /\ IF RowLess(row, config.rows) /\ itemIndex < Len(group)
       THEN /\ currentX' = 0
            /\ itemsInThisRow' = 0
            /\ col' = 0
            /\ pc' = "palletCol"
            /\ UNCHANGED ci
       ELSE /\ ci' = ci + 1
            /\ pc' = "palletConfig"
            /\ UNCHANGED <<currentX, itemsInThisRow, col>>
    /\ UNCHANGED <<callVars, itemGroups, gi, placements, result, strategy,
                   row, currentY, itemIndex, rowIndex, rowHeight, remaining>>

PalletColumn ==
    /\ col < config.itemsPerRow
    /\ itemIndex < Len(group)
    /\ itemsInThisRow < config.itemsPerRow

PalletFits ==
    /\ currentX + palletW <= truck.width
    /\ currentY + palletH <= truck.length
    /\ canPlaceAt(currentX, currentY, palletW, palletH, placements, truck)

PalletPlace ==
    /\ pc = "palletCol"
    /\ PalletColumn
    /\ PalletFits
    /\ LET item == group[itemIndex + 1]
       IN  /\ placements' = Append(placements,
                ItemPlacement(item, currentX, currentY, palletW, palletH))
           /\ result' = PushPlaced(result, item, currentX, currentY,
                                   palletW, palletH, truck)
    /\ itemIndex' = itemIndex + 1
    /\ itemsInThisRow' = itemsInThisRow + 1
    /\ currentX' = currentX + palletW
    /\ col' = col + 1
    /\ UNCHANGED <<callVars, pc, itemGroups, gi, strategy, ci, row, currentY,
                   rowIndex, rowHeight, remaining>>

PalletRowBreak ==
    /\ pc = "palletCol"
    /\ ~(PalletColumn /\ PalletFits)
    /\ pc' = "palletRowEnd"
    /\ UNCHANGED <<callVars, itemGroups, gi, placements, result, palletVars,
                   col, currentX, currentY, itemIndex, rowIndex, rowHeight,
                   remaining>>

PalletRowEnd ==
    /\ pc = "palletRowEnd"
    /\ currentY' = AdvanceY(currentY, palletH, truck)
    /\ IF itemIndex - (palletCount - Len(group)) >= config.count
       THEN /\ ci' = ci + 1
            /\ pc' = "palletConfig"
            /\ UNCHANGED row
       ELSE /\ row' = NextRow(row, config.rows)
            /\ pc' = "palletRow"
            /\ UNCHANGED ci
    /\ UNCHANGED <<callVars, itemGroups, gi, placements, result, strategy,
                   col, currentX, itemIndex, itemsInThisRow, rowIndex,
                   rowHeight, remaining>>

----------------------------------------------------------------------------
(* packTanks                                                               *)

tankDiameter == getItemDimensions(sampleItem).width
tanksPerRow == truck.width \div tankDiameter
centerOffset == (truck.width - tanksPerRow * tankDiameter) \div 2
isEvenRow == rowIndex % 2 = 0
zigzagOffset == IF isEvenRow THEN 0 ELSE tankDiameter \div 2
adjustedTanksPerRow == IF isEvenRow THEN tanksPerRow ELSE Max(1, tanksPerRow - 1)
tankX == centerOffset + zigzagOffset + col * tankDiameter
\* tankDiameter * 0.866
rowSpacing == (tankDiameter * 866) \div 1000

TankRow ==
    /\ pc = "tankRow"
    /\ IF itemIndex < Len(group) /\ currentY + tankDiameter <= truck.length
       THEN /\ col' = 0
            /\ pc' = "tankCol"
            /\ UNCHANGED <<result, gi>>
       ELSE /\ result' = PushRemaining(result, Slice(group, itemIndex))
            /\ gi' = gi + 1
            /\ pc' = "group"
            /\ UNCHANGED col
    /\ UNCHANGED <<callVars, itemGroups, placements, palletVars, currentX,
                   currentY, itemIndex, rowIndex, rowHeight, remaining>>

TankColumn == col < adjustedTanksPerRow /\ itemIndex < Len(group)

TankFits ==
    /\ tankX + tankDiameter <= truck.width
    /\ canPlaceAt(tankX, currentY, tankDiameter, tankDiameter, placements,
                  truck)

TankPlace ==
    /\ pc = "tankCol"
    /\ TankColumn
    /\ TankFits
    /\ LET item == group[itemIndex + 1]
       IN  /\ placements' = Append(placements,
                ItemPlacement(item, tankX, currentY, tankDiameter,
                              tankDiameter))
           /\ result' = PushPlaced(result, item, tankX, currentY,
                                   tankDiameter, tankDiameter, truck)
    /\ itemIndex' = itemIndex + 1
    /\ col' = col + 1
    /\ UNCHANGED <<callVars, pc, itemGroups, gi, palletVars, currentX,
                   currentY, rowIndex, rowHeight, remaining>>

TankSkip ==
    /\ pc = "tankCol"
    /\ TankColumn
    /\ ~TankFits
    /\ col' = col + 1
    /\ UNCHANGED <<callVars, pc, itemGroups, gi, placements, result,
                   palletVars, currentX, currentY, itemIndex, rowIndex,
                   rowHeight, remaining>>

TankRowEnd ==
    /\ pc = "tankCol"
    /\ ~TankColumn
    /\ currentY' = currentY + rowSpacing
    /\ rowIndex' = rowIndex + 1
    /\ pc' = "tankRow"
    /\ UNCHANGED <<callVars, itemGroups, gi, placements, result, palletVars,
                   col, currentX, itemIndex, rowHeight, remaining>>

----------------------------------------------------------------------------
(* packGenericItems (also packEWCs)                                        *)

thisItem == group[itemIndex + 1]
dimensions == getItemDimensions(thisItem)

GenericItem ==
    /\ pc = "genericItem"
    /\ IF itemIndex >= Len(group)
       THEN /\ result' = PushRemaining(result, remaining)
            /\ gi' = gi + 1
            /\ pc' = "group"
            /\ UNCHANGED <<remaining, itemIndex, currentX>>
       ELSE IF dimensions = NoDimensions
       THEN /\ remaining' = Append(remaining, thisItem)
            /\ itemIndex' = itemIndex + 1
            /\ UNCHANGED <<result, gi, pc, currentX>>
       ELSE /\ currentX' = 0
            /\ pc' = "genericProbe"
            /\ UNCHANGED <<result, gi, remaining, itemIndex>>
    /\ UNCHANGED <<callVars, itemGroups, placements, palletVars, col,
                   currentY, rowIndex, rowHeight>>

GenericInRow == currentX + dimensions.width <= truck.width

GenericPlace ==
    /\ pc = "genericProbe"
    /\ GenericInRow
    /\ canPlaceAt(currentX, currentY, dimensions.width, dimensions.height,
                  placements, truck)
    /\ placements' = Append(placements,
            ItemPlacement(thisItem, currentX, currentY, dimensions.width,
                          dimensions.height))
    /\ rowHeight' = Max(rowHeight, dimensions.height)
    /\ result' = PushPlaced(result, thisItem, currentX, currentY,
                            dimensions.width, dimensions.height, truck)
    /\ itemIndex' = itemIndex + 1
    /\ pc' = "genericItem"
    /\ UNCHANGED <<callVars, itemGroups, gi, palletVars, col, currentX,
                   currentY, rowIndex, remaining>>

GenericProbe ==
    /\ pc = "genericProbe"
    /\ GenericInRow
    /\ ~canPlaceAt(currentX, currentY, dimensions.width, dimensions.height,
                   placements, truck)
    /\ currentX' = currentX + cm(20)
    /\ UNCHANGED <<callVars, pc, itemGroups, gi, placements, result,
                   palletVars, col, currentY, itemIndex, rowIndex, rowHeight,
                   remaining>>

\* a variant that gives the unit up as soon as the current row is full
GenericNextRow_NoRetry ==
    /\ pc = "genericProbe"
    /\ ~GenericInRow
    /\ currentY' = currentY + rowHeight
    /\ currentX' = 0
    /\ remaining' = Append(remaining, thisItem)
    /\ rowHeight' = 0
    /\ itemIndex' = itemIndex + 1
    /\ pc' = "genericItem"
    /\ UNCHANGED <<callVars, itemGroups, gi, placements, result, palletVars,
                   col, rowIndex>>

GenericNextRow ==
    /\ pc = "genericProbe"
    /\ ~GenericInRow
    /\ currentY' = currentY + rowHeight
    /\ currentX' = 0
    /\ IF /\ currentY' + dimensions.height <= truck.length
          /\ canPlaceAt(0, currentY', dimensions.width, dimensions.height,
                        placements, truck)
       THEN /\ placements' = Append(placements,
                    ItemPlacement(thisItem, 0, currentY', dimensions.width,
                                  dimensions.height))
            /\ rowHeight' = dimensions.height
            /\ result' = PushPlaced(result, thisItem, 0, currentY',
                                    dimensions.width, dimensions.height,
                                    truck)
            /\ UNCHANGED remaining
       ELSE /\ remaining' = Append(remaining, thisItem)
            /\ rowHeight' = 0
            /\ UNCHANGED <<placements, result>>
    /\ itemIndex' = itemIndex + 1
    /\ pc' = "genericItem"
    /\ UNCHANGED <<callVars, itemGroups, gi, palletVars, col, rowIndex>>

----------------------------------------------------------------------------
(* findGaps and placeAirbags                                               *)

gridSize == cm(20)

\* a variant that scans whole cells only
GridSteps_Floor(extent) == extent \div gridSize

\* number of values x = 0, gridSize, 2 * gridSize, ... with x < extent
GridSteps(extent) == (extent + gridSize - 1) \div gridSize

\* the cells in scan order: y outer, x inner
GridCell(k, truckConfig) ==
    LET nx == GridSteps(truckConfig.width)
    IN  [x |-> ((k - 1) % nx) * gridSize, y |-> ((k - 1) \div nx) * gridSize,
         width |-> gridSize, height |-> gridSize]

findGaps(ps, truckConfig) ==
    LET n == GridSteps(truckConfig.length) * GridSteps(truckConfig.width)
        cells == [k \in 1..n |-> GridCell(k, truckConfig)]
        free(g) == ~isOccupied(g.x, g.y, g.width, g.height, ps)
    IN  SelectSeq(cells, free)

\* footprints, cells and vehicles measure whole centimetres: areas in cm2
Area(width, height) == (width \div cm(1)) * (height \div cm(1))

GapArea(g) == Area(g.width, g.height)

\* gaps.sort((a, b) => b.width * b.height - a.width * a.height): a stable
\* sort, larger areas first
RECURSIVE SortByArea(_, _)
SortByArea(gaps, areas) ==
    IF areas = {} THEN <<>>
    ELSE LET a == CHOOSE m \in areas : \A o \in areas : o <= m
             same(g) == GapArea(g) = a
         IN  SelectSeq(gaps, same) \o SortByArea(gaps, areas \ {a})

SortGaps(gaps) == SortByArea(gaps, {GapArea(gaps[i]) : i \in 1..Len(gaps)})

\* a variant that spends a standard unit on every gap
placeAirbag_Unchecked(gap, inventory, used) ==
    [used EXCEPT !.standard = @ + 1]

\* one iteration of the loop over sortedGaps
placeAirbag(gap, inventory, used) ==
    IF /\ gap.width >= cm(80)
       /\ gap.height >= cm(60)
       /\ used.standard < inventory.standard
    THEN [used EXCEPT !.standard = @ + 1]
    ELSE IF /\ gap.width >= cm(60)
            /\ gap.height >= cm(40)
            /\ used.small < inventory.small
         THEN [used EXCEPT !.small = @ + 1]
         ELSE used

\* the values of used after each iteration over gaps[lo..hi], started with
\* used; the loop is split in halves to keep the evaluation shallow, and the
\* first half is bound as a value so that it is computed once
RECURSIVE AirbagTrace(_, _, _, _, _)
AirbagTrace(gaps, inventory, used, lo, hi) ==
    IF lo > hi THEN <<>>
    ELSE IF lo = hi THEN << placeAirbag(gaps[lo], inventory, used) >>
    ELSE LET mid == (lo + hi) \div 2
         IN  CHOOSE trace \in
                { left \o AirbagTrace(gaps, inventory, left[Len(left)],
                                      mid + 1, hi) :
                    left \in {AirbagTrace(gaps, inventory, used, lo, mid)} } :
                TRUE

placeAirbags(gaps, inventory, used) ==
    CHOOSE last \in
        { IF trace = <<>> THEN used ELSE trace[Len(trace)] :
            trace \in {AirbagTrace(gaps, inventory, used, 1, Len(gaps))} } :
        TRUE

FindGaps ==
    /\ pc = "group"
    /\ gi > Len(itemGroups)
    /\ result' = [result EXCEPT !.gaps = findGaps(placements, truck)]
    /\ pc' = "placeAirbags"
    /\ UNCHANGED <<callVars, itemGroups, gi, placements, palletVars, col,
                   currentX, currentY, itemIndex, rowIndex, rowHeight,
                   remaining>>

PlaceAirbags ==
    /\ pc = "placeAirbags"
    /\ \E sortedGaps \in {SortGaps(result.gaps)} :
        \E used \in {result.usedAirbags} :
            result' = [result EXCEPT
                !.gaps = sortedGaps,
                !.usedAirbags = placeAirbags(sortedGaps,
                                             input.airbagInventory, used)]
    /\ pc' = "calculateMetrics"
    /\ UNCHANGED <<callVars, itemGroups, gi, placements, palletVars, col,
                   currentX, currentY, itemIndex, rowIndex, rowHeight,
                   remaining>>

----------------------------------------------------------------------------
(* calculateMetrics                                                        *)

\* result.placedItems.reduce((sum, item) => sum + item.width * item.height, 0)
\* over the first k entries
RECURSIVE usedArea(_, _)
usedArea(placedItems, k) ==
    IF k = 0 THEN 0
    ELSE usedArea(placedItems, k - 1)
            + Area(placedItems[k].width, placedItems[k].height)

frontAxlePosition(truckConfig) == truckConfig.length \div 5
rearAxlePosition(truckConfig) == (truckConfig.length * 4) \div 5

\* a variant that measures from the leading edge of the unit
rearWeight_FromEdge(p, truckConfig) ==
    LET itemCenter == p.y
    IN  IF itemCenter < frontAxlePosition(truckConfig) THEN RatZero
        ELSE IF itemCenter > rearAxlePosition(truckConfig) THEN p.weight
        ELSE RatScale(p.weight,
                      itemCenter - frontAxlePosition(truckConfig),
                      rearAxlePosition(truckConfig)
                          - frontAxlePosition(truckConfig))

\* the share of one placed unit that goes to the rear axle
rearWeight(p, truckConfig) ==
    LET itemCenter == p.y + p.height \div 2
    IN  IF itemCenter < frontAxlePosition(truckConfig) THEN RatZero
        ELSE IF itemCenter > rearAxlePosition(truckConfig) THEN p.weight
        ELSE RatScale(p.weight,
                      itemCenter - frontAxlePosition(truckConfig),
                      rearAxlePosition(truckConfig)
                          - frontAxlePosition(truckConfig))

\* a variant that puts the whole unit on the front axle as well
frontWeight_Whole(p, truckConfig) == p.weight

frontWeight(p, truckConfig) == RatSub(p.weight, rearWeight(p, truckConfig))

\* result.frontAxleLoad after the first k entries of placedItems
RECURSIVE frontAxleLoad(_, _, _)
frontAxleLoad(placedItems, truckConfig, k) ==
    IF k = 0 THEN RatZero
    ELSE RatAdd(frontAxleLoad(placedItems, truckConfig, k - 1),
                frontWeight(placedItems[k], truckConfig))

\* result.rearAxleLoad after the first k entries of placedItems
RECURSIVE rearAxleLoad(_, _, _)
rearAxleLoad(placedItems, truckConfig, k) ==
    IF k = 0 THEN RatZero
    ELSE RatAdd(rearAxleLoad(placedItems, truckConfig, k - 1),
                rearWeight(placedItems[k], truckConfig))

RatInt(k) == [n |-> k, d |-> 1]
RatAbs(a) == [n |-> Abs(a.n), d |-> a.d]

\* a variant that tests the balance before the axle limits
loadBalance_UnbalancedFirst(front, rear, totalWeight, truckConfig) ==
    IF RatLess(RatScale(totalWeight, 3, 10), RatAbs(RatSub(front, rear)))
    THEN "Unbalanced"
    ELSE IF \/ RatLess(RatInt(truckConfig.frontAxleLimit), front)
            \/ RatLess(RatInt(truckConfig.rearAxleLimit), rear)
         THEN "Overloaded"
         ELSE "Optimal"

\* a variant that also takes a total above the rear limit for an overload
loadBalance_TotalOverRear(front, rear, totalWeight, truckConfig) ==
    IF \/ RatLess(RatInt(truckConfig.frontAxleLimit), front)
       \/ RatLess(RatInt(truckConfig.rearAxleLimit), rear)
       \/ RatLess(RatInt(truckConfig.rearAxleLimit), totalWeight)
    THEN "Overloaded"
    ELSE IF RatLess(RatScale(totalWeight, 3, 10), RatAbs(RatSub(front, rear)))
         THEN "Unbalanced"
         ELSE "Optimal"

loadBalance(front, rear, totalWeight, truckConfig) ==
    IF \/ RatLess(RatInt(truckConfig.frontAxleLimit), front)
       \/ RatLess(RatInt(truckConfig.rearAxleLimit), rear)
    THEN "Overloaded"
    ELSE IF RatLess(RatScale(totalWeight, 3, 10), RatAbs(RatSub(front, rear)))
         THEN "Unbalanced"
         ELSE "Optimal"

calculateMetrics(res, truckConfig) ==
    LET totalArea == Area(truckConfig.length, truckConfig.width)
        n == Len(res.placedItems)
    IN  [res EXCEPT
            !.spaceUtilization =
                Round(usedArea(res.placedItems, n) * 100, totalArea),
            !.weightUtilization =
                Round(res.totalWeight.n * 100,
                      res.totalWeight.d * truckConfig.maxWeight),
            !.frontAxleLoad = frontAxleLoad(res.placedItems, truckConfig, n),
            !.rearAxleLoad = rearAxleLoad(res.placedItems, truckConfig, n),
            !.loadBalance =
                loadBalance(frontAxleLoad(res.placedItems, truckConfig, n),
                            rearAxleLoad(res.placedItems, truckConfig, n),
                            res.totalWeight, truckConfig)]

CalculateMetrics ==
    /\ pc = "calculateMetrics"
    /\ result' = calculateMetrics(result, truck)
    /\ pc' = "done"
    /\ UNCHANGED <<callVars, itemGroups, gi, placements, palletVars, col,
                   currentX, currentY, itemIndex, rowIndex, rowHeight,
                   remaining>>

----------------------------------------------------------------------------
(* The record store: MemStorage and the routes in front of it              *)

MaxItems == 3
MaxResults == 2

\* A Map<number, V> is the sequence of its entries in insertion order.
MapKeys(m) == {m[i].key : i \in 1..Len(m)}

\* Map.prototype.has
MapHas(m, k) == \E i \in 1..Len(m) : m[i].key = k

\* Map.prototype.set: an existing key keeps its place
MapSet(m, k, v) ==
    IF MapHas(m, k)
    THEN [i \in 1..Len(m) |->
            IF m[i].key = k THEN [key |-> k, value |-> v] ELSE m[i]]
    ELSE Append(m, [key |-> k, value |-> v])

\* the map after Map.prototype.delete
MapDelete(m, k) ==
    LET others(e) == e.key # k
    IN  SelectSeq(m, others)

\* Array.from(map.values())
MapValues(m) == [i \in 1..Len(m) |-> m[i].value]

Reply(op, status, id, body) ==
    [op |-> op, status |-> status, id |-> id, body |-> body]

NoReply == Reply("none", 0, 0, <<>>)

\* constructor()
MemStorage ==
    /\ this_items = <<>>
    /\ this_optimizationResults = <<>>
    /\ this_currentItemId = 1
    /\ this_currentResultId = 1
    /\ reply = NoReply
    /\ itemIds = <<>>
    /\ resultIds = <<>>

\* the Item createItem builds from the validated request body
NewItem(insertItem, id) ==
    [id |-> id,
     item_id |-> insertItem.item_id,
     type |-> insertItem.type,
     subtype |-> insertItem.subtype,
     number_of_items |-> insertItem.number_of_items,
     weight_kg |-> insertItem.weight_kg,
     stackable |-> insertItem.type = "EWC"]

\* the OptimizationResult createOptimizationResult builds
NewResult(insertResult, id, now) ==
    [id |-> id,
     truck_type |-> insertResult.truck_type,
     items |-> insertResult.items,
     placed_items |-> insertResult.placed_items,
     used_airbags |-> insertResult.used_airbags,
     total_weight |-> insertResult.total_weight,
     front_axle_load |-> insertResult.front_axle_load,
     rear_axle_load |-> insertResult.rear_axle_load,
     space_utilization |-> insertResult.space_utilization,
     weight_utilization |-> insertResult.weight_utilization,
     created_at |-> now]

\* a variant that numbers a new item after the size of the map
PostItem_IdFromSize(body) ==
    /\ this_currentItemId <= MaxItems
    /\ IF body.valid
       THEN LET id == Len(this_items) + 1
                item == NewItem(body.data, id)
            IN  /\ this_currentItemId' = this_currentItemId + 1
                /\ this_items' = MapSet(this_items, id, item)
                /\ itemIds' = Append(itemIds, item.id)
                /\ reply' = Reply("createItem", 200, item.id, <<item>>)
       ELSE /\ reply' = Reply("createItem", 400, 0, <<>>)
            /\ UNCHANGED <<this_items, this_currentItemId, itemIds>>
    /\ UNCHANGED <<this_optimizationResults, this_currentResultId, resultIds,
                   engineVars, pageVars>>

\* POST /api/items and createItem
PostItem(body) ==
    /\ this_currentItemId <= MaxItems
    /\ IF body.valid
       THEN LET id == this_currentItemId
                item == NewItem(body.data, id)
            IN  /\ this_currentItemId' = this_currentItemId + 1
                /\ this_items' = MapSet(this_items, id, item)
                /\ itemIds' = Append(itemIds, item.id)
                /\ reply' = Reply("createItem", 200, item.id, <<item>>)
       ELSE /\ reply' = Reply("createItem", 400, 0, <<>>)
            /\ UNCHANGED <<this_items, this_currentItemId, itemIds>>
    /\ UNCHANGED <<this_optimizationResults, this_currentResultId, resultIds,
                   engineVars, pageVars>>

\* GET /api/items and getItems
GetItems ==
    /\ reply' = Reply("getItems", 200, 0, MapValues(this_items))
    /\ UNCHANGED <<this_items, this_optimizationResults, this_currentItemId,
                   this_currentResultId, itemIds, resultIds, engineVars,
                   pageVars>>

\* a variant that reports success without looking
deleteItem_AlwaysTrue(m, id) ==
    [deleted |-> TRUE, items |-> MapDelete(m, id)]

\* deleteItem: what this.items.delete(id) returns and leaves
deleteItem(m, id) ==
    [deleted |-> MapHas(m, id), items |-> MapDelete(m, id)]

\* DELETE /api/items/:id
DeleteItem(id) ==
    /\ LET done == deleteItem(this_items, id)
       IN  /\ this_items' = done.items
           /\ reply' = IF done.deleted
                       THEN Reply("deleteItem", 200, id, <<>>)
                       ELSE Reply("deleteItem", 404, id, <<>>)
    /\ UNCHANGED <<this_optimizationResults, this_currentItemId,
                   this_currentResultId, itemIds, resultIds, engineVars,
                   pageVars>>

\* POST /api/optimize and createOptimizationResult
PostOptimize(body, now) ==
    /\ this_currentResultId <= MaxResults
    /\ IF body.valid
       THEN LET id == this_currentResultId
                stored == NewResult(body.data, id, now)
            IN  /\ this_currentResultId' = this_currentResultId + 1
                /\ this_optimizationResults' =
                        MapSet(this_optimizationResults, id, stored)
                /\ resultIds' = Append(resultIds, stored.id)
                /\ reply' = Reply("createOptimizationResult", 200, stored.id,
                                  <<stored>>)
       ELSE /\ reply' = Reply("createOptimizationResult", 400, 0, <<>>)
            /\ UNCHANGED <<this_optimizationResults, this_currentResultId,
                           resultIds>>
    /\ UNCHANGED <<this_items, this_currentItemId, itemIds, engineVars,
                   pageVars>>

\* GET /api/optimization-results and getOptimizationResults
GetOptimizationResults ==
    /\ reply' = Reply("getOptimizationResults", 200, 0,
                      MapValues(this_optimizationResults))
    /\ UNCHANGED <<this_items, this_optimizationResults, this_currentItemId,
                   this_currentResultId, itemIds, resultIds, engineVars,
                   pageVars>>

----------------------------------------------------------------------------
(* The caller: repeated optimize calls                                     *)

MaxCalls == 2

\* the (type, subtype) pair of the item is a key of the catalog
InCatalog(it) ==
    /\ it.type \in DOMAIN ITEM_CONFIGURATIONS
    /\ it.subtype \in DOMAIN ITEM_CONFIGURATIONS[it.type]

\* the cargo list without the items the catalog does not know
KnownItems(items) == SelectSeq(items, InCatalog)

----------------------------------------------------------------------------
(* Inputs                                                                  *)

MaxQuantity == 3
MaxPallets == 10

TruckConfig(length, width, maxWeight, frontAxleLimit, rearAxleLimit) ==
    [length |-> cm(length), width |-> cm(width), maxWeight |-> maxWeight,
     frontAxleLimit |-> frontAxleLimit, rearAxleLimit |-> rearAxleLimit]

pianale == TruckConfig(1360, 248, 24000, 7000, 11000)
container == TruckConfig(1200, 235, 28000, 8000, 12000)

\* a vehicle of the given floor with the limits of the pianale
Floor(length, width) == TruckConfig(length, width, 24000, 7000, 11000)

Cargo ==
    { <<"pallet", "europallet">>, <<"pallet", "custom">>,
      <<"tank", "small">>, <<"tank", "big">>,
      <<"EWC", "800x1200">>, <<"EWC", "1000x1200">>,
      <<"tank", "medium">>, <<"EWC", "600x800">>,
      <<"pallet", "half">>, <<"box", "small">> }

Item(id, c, quantity, weight) ==
    [item_id |-> id, type |-> c[1], subtype |-> c[2],
     number_of_items |-> quantity, weight_kg |-> weight]

Weights == {100, 250}

SmallFloors == { Floor(240, 240), Floor(300, 235), Floor(260, 100) }

PalletFloors ==
    { pianale, Floor(120, 240), Floor(160, 240), Floor(300, 130),
      Floor(200, 70), Floor(24000, 240), Floor(24020, 240) }

uiInventory == AirbagUsage(10, 20, 5, 15)
Inventories == { AirbagUsage(0, 0, 0, 0), AirbagUsage(0, 5, 0, 0), uiInventory }

\* one europallet item, of any count up to MaxPallets, on any floor
PalletInputs ==
    { [items |-> << Item("A", <<"pallet", "europallet">>, q, w) >>,
       truckConfig |-> t, airbagInventory |-> uiInventory] :
        q \in 1..MaxPallets, w \in {400}, t \in PalletFloors \cup SmallFloors }

\* one item of any cargo
SingleInputs ==
    { [items |-> << Item("A", c, q, w) >>,
       truckConfig |-> t, airbagInventory |-> inv] :
        c \in Cargo, q \in 1..MaxQuantity, w \in Weights,
        t \in SmallFloors, inv \in Inventories }

\* two items of any cargo
PairInputs ==
    { [items |-> << Item("A", c1, q1, 100), Item("B", c2, q2, 250) >>,
       truckConfig |-> t, airbagInventory |-> uiInventory] :
        c1 \in Cargo, c2 \in Cargo,
        q1 \in 1..MaxQuantity, q2 \in 1..MaxQuantity, t \in SmallFloors }

EmptyInputs ==
    { [items |-> <<>>, truckConfig |-> t, airbagInventory |-> uiInventory] :
        t \in SmallFloors }

\* one tank of each catalog diameter, in either order, on the container
TankInputs ==
    { [items |-> << Item("A", <<"tank", s1>>, 1, 100),
                    Item("B", <<"tank", s2>>, 1, 250) >>,
       truckConfig |-> container, airbagInventory |-> uiInventory] :
        s1 \in {"big", "small"}, s2 \in {"big", "small"} }

HeavyWeights == {12000, 16000}

\* loads near the axle limits, on a floor one pallet long and on a longer one
HeavyInputs ==
    { [items |-> << Item("A", <<"pallet", "custom">>, q, w) >>,
       truckConfig |-> t, airbagInventory |-> uiInventory] :
        q \in 1..MaxQuantity, w \in HeavyWeights,
        t \in {Floor(100, 240), Floor(240, 240)} }

\* the bulk load of the strategy table: 33 europallets on the pianale
BulkInputs ==
    { [items |-> << Item("A", <<"pallet", "europallet">>, 33, 13200) >>,
       truckConfig |-> pianale, airbagInventory |-> uiInventory] }

Inputs ==
    PalletInputs \cup SingleInputs \cup PairInputs \cup EmptyInputs
        \cup TankInputs \cup HeavyInputs \cup BulkInputs

\* the input of a second, unrelated caller
OtherInput ==
    [items |-> << Item("X", <<"tank", "small">>, 2, 100),
                  Item("Y", <<"pallet", "custom">>, 3, 250) >>,
     truckConfig |-> Floor(300, 235),
     airbagInventory |-> AirbagUsage(0, 5, 0, 0)]

\* the same cargo at other weights: three times as heavy, and the later
\* items heavier still
Reweighed(items) ==
    [k \in 1..Len(items) |->
        [items[k] EXCEPT !.weight_kg = 3 * @ + 100 * (k - 1)]]

\* the planner page as it is mounted
Home ==
    /\ selectedTruckType = ""
    /\ home_items = <<>>
    /\ optimizationResult = NoOutput
    /\ isOptimizing = FALSE

NoCall ==
    [input |-> [items |-> <<>>, truckConfig |-> Floor(240, 240),
                airbagInventory |-> AirbagUsage(0, 0, 0, 0)],
     output |-> NoOutput]

\* The caller keeps the returned output and calls optimize again: with the
\* same input ("same"), with the unknown items taken out ("known"), with
\* the input of another caller ("other"), and after that one with the first
\* input once more ("back"), or with the first input at other weights
\* ("heavier").
CallAgain(m) ==
    /\ pc = "done"
    /\ IF m = "back" THEN mode = "other" ELSE calls < MaxCalls
    /\ m = "known" => KnownItems(input.items) # input.items
    /\ m \in {"other", "heavier"} => mode = "first"
    /\ calls' = calls + 1
    /\ mode' = m
    /\ prev' = result
    /\ alone' = IF m = "other" THEN [input |-> input, output |-> result]
                ELSE alone
    /\ input' = CASE m = "known" -> [input EXCEPT !.items = KnownItems(@)]
                  [] m = "other" -> OtherInput
                  [] m = "back" -> alone.input
                  [] m = "heavier" ->
                        [input EXCEPT !.items = Reweighed(@)]
                  [] OTHER -> input
    /\ pc' = "optimize"
    /\ UNCHANGED <<itemGroups, gi, placements, result, palletVars, col,
                   currentX, currentY, itemIndex, rowIndex, rowHeight,
                   remaining, storeVars, pageVars>>

InitCall(in) ==
    /\ input = in
    /\ calls = 1
    /\ mode = "first"
    /\ prev = NoOutput
    /\ alone = NoCall
    /\ MemStorage
    /\ Home
    /\ pc = "optimize"
    /\ itemGroups = <<>>
    /\ gi = 1
    /\ placements = <<>>
    /\ result = NewOutput
    /\ strategy = <<>>
    /\ ci = 1
    /\ row = 0
    /\ col = 0
    /\ currentX = 0
    /\ currentY = 0
    /\ itemIndex = 0
    /\ itemsInThisRow = 0
    /\ rowIndex = 0
    /\ rowHeight = 0
    /\ remaining = <<>>

Init == \E in \in Inputs : InitCall(in)

Next ==
    \/ Optimize
    \/ PackEuropallets
    \/ PackTanks
    \/ PackGenericItems
    \/ PalletConfig
    \/ PalletRow
    \/ PalletPlace
    \/ PalletRowBreak
    \/ PalletRowEnd
    \/ TankRow
    \/ TankPlace
    \/ TankSkip
    \/ TankRowEnd
    \/ GenericItem
    \/ GenericPlace
    \/ GenericProbe
    \/ GenericNextRow
    \/ FindGaps
    \/ PlaceAirbags
    \/ CalculateMetrics
    \/ \E m \in {"same", "known", "other", "back", "heavier"} : CallAgain(m)

Spec == Init /\ [][Next]_vars

\* The inputs of the termination check: europallets on floors narrower
\* than two pallets, and mixed cargo on the narrowest of the small floors.
NarrowInputs ==
    { in \in PalletInputs :
        in.truckConfig \in {Floor(200, 70), Floor(260, 100), Floor(300, 130)} }
    \cup
    { in \in PairInputs :
        /\ in.truckConfig = Floor(260, 100)
        /\ in.items[1].type = "tank"
        /\ in.items[1].subtype \in {"small", "medium"}
        /\ in.items[1].number_of_items = MaxQuantity
        /\ in.items[2].subtype \in {"custom", "europallet", "800x1200"}
        /\ in.items[2].number_of_items = MaxQuantity }

FairInit == \E in \in NarrowInputs : InitCall(in)

\* optimize is synchronous: once called it keeps running
FairSpec == FairInit /\ [][Next]_vars /\ WF_vars(Next)

\* the request bodies of POST /api/items: two that insertItemSchema accepts
\* and one it rejects
InsertItems ==
    { [item_id |-> "A", type |-> "EWC", subtype |-> "800x1200",
       number_of_items |-> 2, weight_kg |-> 100],
      [item_id |-> "B", type |-> "pallet", subtype |-> "europallet",
       number_of_items |-> 3, weight_kg |-> 1200] }

ItemBodies ==
    { [valid |-> v, data |-> d] : v \in BOOLEAN, d \in InsertItems }

\* the request bodies of POST /api/optimize
InsertResults ==
    { [truck_type |-> "pianale", items |-> <<>>, placed_items |-> <<>>,
       used_airbags |-> AirbagUsage(0, 0, 0, 0), total_weight |-> 0,
       front_axle_load |-> 0, rear_axle_load |-> 0,
       space_utilization |-> 0, weight_utilization |-> 0] }

ResultBodies ==
    { [valid |-> v, data |-> d] : v \in BOOLEAN, d \in InsertResults }

\* new Date().toISOString()
Times == { "2025-01-01T00:00:00.000Z", "2025-01-02T00:00:00.000Z" }

\* parseInt(req.params.id): ids that were issued and ids that never were
RequestIds == 0..(MaxItems + 1)

\* the server with no optimize call running in the client
StoreInit ==
    \E in \in { e \in EmptyInputs : e.truckConfig = Floor(240, 240) } :
        InitCall(in)

StoreNext ==
    \/ \E body \in ItemBodies : PostItem(body)
    \/ GetItems
    \/ \E id \in RequestIds : DeleteItem(id)
    \/ \E body \in ResultBodies : \E now \in Times : PostOptimize(body, now)
    \/ GetOptimizationResults

StoreSpec == StoreInit /\ [][StoreNext]_vars

----------------------------------------------------------------------------
(* The planner page (Home) with its item form and item rows, in front of   *)
(* the record store.  A handler and the requests it awaits are one step;   *)
(* the form and the row validate with insertItemSchema before they send,   *)
(* and the rows show stored items, so every request of these handlers      *)
(* succeeds.  invalidateQueries refetches /api/items.  The engine runs     *)
(* inside optimizeLoadingPlan, step by step, while isOptimizing.           *)

MaxRuns == 1

TRUCK_CONFIGURATIONS == [pianale |-> pianale, container |-> container]

\* what the form of the page can submit
FormItems ==
    InsertItems \cup
        { [item_id |-> "C", type |-> "tank", subtype |-> "small",
           number_of_items |-> 5, weight_kg |-> 300] }

\* the ids of the rows the page shows
RowIds == {home_items[i].id : i \in 1..Len(home_items)}

\* the store after DELETE /api/items/:id for each of the items, in order
RECURSIVE DeleteAll(_, _)
DeleteAll(m, items) ==
    IF items = <<>> THEN m
    ELSE DeleteAll(deleteItem(m, Head(items).id).items, Tail(items))

\* onTruckTypeChange = setSelectedTruckType
SelectTruckType(t) ==
    /\ ~isOptimizing
    /\ selectedTruckType' = t
    /\ UNCHANGED <<home_items, optimizationResult, isOptimizing, storeVars,
                   engineVars>>

\* ItemInputForm: createItemMutation, POST /api/items and onSuccess
CreateItemMutation(data) ==
    /\ ~isOptimizing
    /\ this_currentItemId <= MaxItems
    /\ LET id == this_currentItemId
           item == NewItem(data, id)
       IN  /\ this_currentItemId' = this_currentItemId + 1
           /\ this_items' = MapSet(this_items, id, item)
           /\ itemIds' = Append(itemIds, item.id)
           /\ reply' = Reply("createItem", 200, item.id, <<item>>)
    /\ home_items' = MapValues(this_items')
    /\ UNCHANGED <<this_optimizationResults, this_currentResultId, resultIds,
                   selectedTruckType, optimizationResult, isOptimizing,
                   engineVars>>

\* EditableItemRow: updateItemMutation, DELETE of the old item, POST of the
\* new one, and onSuccess with the 'itemsChanged' event Home listens to
UpdateItemMutation(old, data) ==
    /\ ~isOptimizing
    /\ old \in RowIds
    /\ this_currentItemId <= MaxItems
    /\ LET id == this_currentItemId
           item == NewItem(data, id)
       IN  /\ this_currentItemId' = this_currentItemId + 1
           /\ this_items' = MapSet(deleteItem(this_items, old).items, id, item)
           /\ itemIds' = Append(itemIds, item.id)
           /\ reply' = Reply("createItem", 200, item.id, <<item>>)
    /\ home_items' = MapValues(this_items')
    /\ optimizationResult' = NoOutput
    /\ UNCHANGED <<this_optimizationResults, this_currentResultId, resultIds,
                   selectedTruckType, isOptimizing, engineVars>>

\* handleRemoveItem with deleteItemMutation
HandleRemoveItem(id) ==
    /\ ~isOptimizing
    /\ id \in RowIds
    /\ this_items' = deleteItem(this_items, id).items
    /\ reply' = Reply("deleteItem", 200, id, <<>>)
    /\ optimizationResult' = NoOutput
    /\ home_items' = MapValues(this_items')
    /\ UNCHANGED <<this_optimizationResults, this_currentItemId,
                   this_currentResultId, itemIds, resultIds,
                   selectedTruckType, isOptimizing, engineVars>>

\* handleClearAll
HandleClearAll ==
    /\ ~isOptimizing
    /\ this_items' = DeleteAll(this_items, home_items)
    /\ reply' = IF home_items = <<>> THEN reply
                ELSE Reply("deleteItem", 200, home_items[Len(home_items)].id,
                           <<>>)
    /\ optimizationResult' = NoOutput
    /\ home_items' = MapValues(this_items')
    /\ UNCHANGED <<this_optimizationResults, this_currentItemId,
                   this_currentResultId, itemIds, resultIds,
                   selectedTruckType, isOptimizing, engineVars>>

\* optimizeLoadingPlan up to the call of PackingAlgorithm.optimize
OptimizeLoadingPlan ==
    /\ ~isOptimizing
    /\ selectedTruckType # ""
    /\ Len(home_items) # 0
    /\ this_currentResultId <= MaxRuns
    /\ isOptimizing' = TRUE
    /\ input' = [items |-> home_items,
                 truckConfig |-> TRUCK_CONFIGURATIONS[selectedTruckType],
                 airbagInventory |-> uiInventory]
    /\ pc' = "optimize"
    /\ UNCHANGED <<calls, mode, prev, alone, itemGroups, gi, placements,
                   result, palletVars, col, currentX, currentY, itemIndex,
                   rowIndex, rowHeight, remaining, storeVars,
                   selectedTruckType, home_items, optimizationResult>>

\* optimizeLoadingPlan from the return of PackingAlgorithm.optimize on:
\* setOptimizationResult, POST /api/optimize, setIsOptimizing(false)
OptimizationComplete(now) ==
    /\ isOptimizing
    /\ pc = "done"
    /\ optimizationResult' = result
    /\ LET id == this_currentResultId
           stored == NewResult(
                [truck_type |-> selectedTruckType,
                 items |-> home_items,
                 placed_items |-> result.placedItems,
                 used_airbags |-> result.usedAirbags,
                 total_weight |-> result.totalWeight,
                 front_axle_load |-> result.frontAxleLoad,
                 rear_axle_load |-> result.rearAxleLoad,
                 space_utilization |-> result.spaceUtilization,
                 weight_utilization |-> result.weightUtilization], id, now)
       IN  /\ this_currentResultId' = this_currentResultId + 1
           /\ this_optimizationResults' =
                    MapSet(this_optimizationResults, id, stored)
           /\ resultIds' = Append(resultIds, stored.id)
           /\ reply' = Reply("createOptimizationResult", 200, stored.id,
                             <<stored>>)
    /\ isOptimizing' = FALSE
    /\ UNCHANGED <<this_items, this_currentItemId, itemIds,
                   selectedTruckType, home_items, engineVars>>

PageInit == StoreInit

PageNext ==
    \/ \E t \in DOMAIN TRUCK_CONFIGURATIONS : SelectTruckType(t)
    \/ \E data \in FormItems : CreateItemMutation(data)
    \/ \E old \in 1..MaxItems : \E data \in FormItems :
        UpdateItemMutation(old, data)
    \/ \E id \in 1..MaxItems : HandleRemoveItem(id)
    \/ HandleClearAll
    \/ OptimizeLoadingPlan
    \/ isOptimizing /\ Optimize
    \/ isOptimizing /\ PackEuropallets
    \/ isOptimizing /\ PackTanks
    \/ isOptimizing /\ PackGenericItems
    \/ isOptimizing /\ PalletConfig
    \/ isOptimizing /\ PalletRow
    \/ isOptimizing /\ PalletPlace
    \/ isOptimizing /\ PalletRowBreak
    \/ isOptimizing /\ PalletRowEnd
    \/ isOptimizing /\ TankRow
    \/ isOptimizing /\ TankPlace
    \/ isOptimizing /\ TankSkip
    \/ isOptimizing /\ TankRowEnd
    \/ isOptimizing /\ GenericItem
    \/ isOptimizing /\ GenericPlace
    \/ isOptimizing /\ GenericProbe
    \/ isOptimizing /\ GenericNextRow
    \/ isOptimizing /\ FindGaps
    \/ isOptimizing /\ PlaceAirbags
    \/ isOptimizing /\ CalculateMetrics
    \/ \E now \in Times : OptimizationComplete(now)

PageSpec == PageInit /\ [][PageNext]_vars

----------------------------------------------------------------------------
(* Vocabulary of the properties                                            *)

placed == result.placedItems
leftover == result.remainingItems

Indices(s) == 1..Len(s)
Count(s, u) == Cardinality({i \in Indices(s) : s[i] = u})

\* two footprints that share no interior point; touching edges are allowed
Disjoint(a, b) ==
    \/ a.x + a.width <= b.x
    \/ b.x + b.width <= a.x
    \/ a.y + a.height <= b.y
    \/ b.y + b.height <= a.y

Touching(a, b) ==
    \/ a.x + a.width = b.x
    \/ a.y + a.height = b.y

InsideFloor(p, truckConfig) ==
    /\ p.x >= 0
    /\ p.y >= 0
    /\ p.x + p.width <= truckConfig.width
    /\ p.y + p.height <= truckConfig.length

RECURSIVE PlacedWeight(_)
PlacedWeight(ps) ==
    IF ps = <<>> THEN RatZero
    ELSE RatAdd(PlacedWeight(SubSeq(ps, 1, Len(ps) - 1)), ps[Len(ps)].weight)

RECURSIVE UnitWeight(_)
UnitWeight(us) ==
    IF us = <<>> THEN RatZero
    ELSE RatAdd(UnitWeight(Tail(us)), Head(us).weight_kg)

RECURSIVE Units(_)
Units(items) ==
    IF items = <<>> THEN <<>> ELSE ExpandItem(Head(items)) \o Units(Tail(items))

RECURSIVE InputWeight(_)
InputWeight(items) ==
    IF items = <<>> THEN 0 ELSE Head(items).weight_kg + InputWeight(Tail(items))

RECURSIVE InputQuantity(_)
InputQuantity(items) ==
    IF items = <<>> THEN 0
    ELSE Head(items).number_of_items + InputQuantity(Tail(items))

\* the unit a placed-item record stands for
AsUnit(p) ==
    [item_id |-> p.item_id, type |-> p.type, subtype |-> p.subtype,
     number_of_items |-> 1, weight_kg |-> p.weight]

PlacedUnits == [i \in Indices(placed) |-> AsUnit(placed[i])]

\* the cargo is n europallets and nothing else
OnlyEuropallets(n) ==
    /\ input.items # <<>>
    /\ \A i \in Indices(input.items) : isEuropallet(input.items[i])
    /\ InputQuantity(input.items) = n

Footprint(p) == <<p.x, p.y, p.width, p.height>>
Footprints == [i \in Indices(placed) |-> Footprint(placed[i])]

----------------------------------------------------------------------------
(* C1  No two entries of placedItems overlap: in every state of every      *)
(* call, after each placement step of each strategy, any two distinct      *)
(* placements are disjoint rectangles (touching edges allowed).            *)

C1_NoOverlap ==
    \A i \in Indices(placed) : \A j \in Indices(placed) :
        i < j => Disjoint(placed[i], placed[j])

\* two groups packed by different strategies, with footprints that touch
C1_Witness ==
    /\ pc = "done"
    /\ \E i \in Indices(placed) : \E j \in Indices(placed) :
        /\ placed[i].type = "tank"
        /\ placed[j].type = "EWC"
        /\ placed[i].y + placed[i].height = placed[j].y
    /\ \E i \in Indices(placed) : \E j \in Indices(placed) :
        /\ i # j
        /\ placed[i].type = placed[j].type
        /\ placed[i].x + placed[i].width = placed[j].x

(* C2  Every placement lies inside the vehicle floor: x >= 0, y >= 0,      *)
(* x + width <= vehicle width and y + height <= vehicle length.            *)

\* (before the prologue of a call has run, result is still the output of
\* the call before, on the vehicle of that call)
C2_InsideFloor ==
    pc # "optimize" =>
        \A i \in Indices(placed) : InsideFloor(placed[i], truck)

\* a result whose placements reach the far side and the far end of the floor
C2_Witness ==
    /\ pc = "done"
    /\ \E i \in Indices(placed) : placed[i].x + placed[i].width = truck.width
    /\ \E i \in Indices(placed) : placed[i].y + placed[i].height = truck.length
    /\ leftover # <<>>

(* C3  totalWeight is the sum of the weights of the entries of             *)
(* placedItems, after every placement step; leftover units add nothing.    *)

C3_TotalWeight ==
    /\ result.totalWeight = PlacedWeight(placed)
    /\ Len(placements) = Len(placed) \/ pc = "optimize"

\* in the middle of a call: units placed, units left over, a fractional total
C3_Witness ==
    /\ pc \in {"genericItem", "genericProbe", "tankCol", "palletCol"}
    /\ Len(placed) >= 2
    /\ leftover # <<>>
    /\ result.totalWeight.d > 1

(* C4  Unit conservation: in every result each expanded unit of the input  *)
(* is exactly once in placedItems or in remainingItems, so the counts and  *)
(* the weights of placed and leftover units add up to those of the input.  *)

C4_Conservation ==
    pc = "done" =>
        LET units == Units(input.items)
        IN  /\ \A k \in Indices(units) :
                Count(PlacedUnits, units[k]) + Count(leftover, units[k])
                    = Count(units, units[k])
            /\ Len(placed) + Len(leftover) = InputQuantity(input.items)
            /\ RatAdd(PlacedWeight(placed), UnitWeight(leftover))
                    = RatInt(InputWeight(input.items))

\* a pallet group that ran out of floor: some placed, some returned
C4_Witness ==
    /\ pc = "done"
    /\ placed # <<>>
    /\ \E i \in Indices(leftover) : isEuropallet(leftover[i])
    /\ \E i \in Indices(leftover) : leftover[i].type = "tank"

(* C5  optimize terminates and returns a result for every cargo list with  *)
(* quantities >= 1 and every vehicle with positive length and width, also  *)
(* a vehicle narrower than 120 cm with 1, 2 or 10 europallets.             *)

C5_Terminates == <>(pc = "done")

(* C6  Determinism: a second optimize call on the identical input returns  *)
(* the identical output (placements, leftovers, dunnage, gaps, metrics).   *)

C6_Deterministic ==
    (pc = "done" /\ mode = "same") => result = prev

\* a repeated call that placed units, left units over and found gaps
C6_Witness ==
    /\ pc = "done"
    /\ mode = "same"
    /\ Len(placed) >= 2
    /\ leftover # <<>>
    /\ result.gaps # <<>>

(* C7  Dunnage bound: after every iteration of the dunnage fill and in     *)
(* every result, used standard <= inventory standard and used small <=     *)
(* inventory small, and '3d' and 'pallet_stabilizer' stay 0.               *)

WithinInventory(used, inventory) ==
    /\ used.standard <= inventory.standard
    /\ used.small <= inventory.small
    /\ used["3d"] = 0
    /\ used.pallet_stabilizer = 0

C7_DunnageBound ==
    /\ WithinInventory(result.usedAirbags, input.airbagInventory)
    /\ pc = "placeAirbags" =>
        LET sortedGaps == SortGaps(result.gaps)
            trace == AirbagTrace(sortedGaps, input.airbagInventory,
                                 result.usedAirbags, 1, Len(sortedGaps))
        IN  \A k \in Indices(trace) :
                WithinInventory(trace[k], input.airbagInventory)

\* the fill ran over a floor with free cells and an empty standard inventory
C7_Witness ==
    /\ pc = "calculateMetrics"
    /\ Len(result.gaps) >= 5
    /\ placed # <<>>
    /\ input.airbagInventory.standard = 0
    /\ input.airbagInventory.small > 0

(* C8  Units without catalog dimensions are all returned in                *)
(* remainingItems, are never placed and add nothing to totalWeight, and    *)
(* the call places exactly what it places when they are removed from the   *)
(* input.                                                                  *)

C8_UnknownGeometry ==
    pc = "done" =>
        /\ \A i \in Indices(placed) : InCatalog(placed[i])
        /\ \A k \in Indices(input.items) :
            ~InCatalog(input.items[k]) =>
                \A u \in {ExpandItem(input.items[k])[1]} :
                    Count(leftover, u) = Count(Units(input.items), u)
        /\ mode = "known" =>
            /\ placed = prev.placedItems
            /\ result.totalWeight = prev.totalWeight
            /\ result.gaps = prev.gaps

\* the call without the unknown item, which came first in the cargo list,
\* has returned; the call with it had placed units and returned the unknown
C8_Witness ==
    /\ pc = "done"
    /\ mode = "known"
    /\ placed # <<>>
    /\ prev.placedItems = placed
    /\ prev.remainingItems # <<>>
    /\ \E i \in Indices(prev.remainingItems) :
        /\ ~InCatalog(prev.remainingItems[i])
        /\ prev.remainingItems[i].item_id = "A"
        /\ prev.remainingItems[i].type = "tank"

(* C9  Three europallets as the only cargo on an empty vehicle at least    *)
(* 240 cm wide and 120 cm long: all three placed in one row at y = 0,      *)
(* 80 wide by 120 long at x = 0, 80, 160, nothing left over, and           *)
(* spaceUtilization > 0.                                                   *)

ThreePalletsCase ==
    /\ pc = "done"
    /\ OnlyEuropallets(3)
    /\ truck.width >= cm(240)
    /\ truck.length >= cm(120)

ThreeInARow ==
    /\ Footprints = << <<0, 0, cm(80), cm(120)>>,
                       <<cm(80), 0, cm(80), cm(120)>>,
                       <<cm(160), 0, cm(80), cm(120)>> >>
    /\ leftover = <<>>

C9_AsClaimed ==
    ThreePalletsCase => (ThreeInARow /\ result.spaceUtilization > 0)

(* C9 as amended: the layout is as stated and spaceUtilization is          *)
(* round(100 x 28800 / (length x width)), which is greater than 0 exactly  *)
(* when the floor measures at most 5 760 000 cm2.                          *)

C9_ThreePallets ==
    ThreePalletsCase =>
        /\ ThreeInARow
        /\ result.spaceUtilization > 0
            <=> Area(truck.length, truck.width) <= 2 * 100 * 3 * 120 * 80

\* the 1360 x 248 vehicle with its three pallets placed
C9_Witness ==
    /\ ThreePalletsCase
    /\ truck = pianale
    /\ Len(placed) = 3
    /\ result.spaceUtilization = 9

(* C10  Four europallets as the only cargo on an empty vehicle at least    *)
(* 240 cm wide and 160 cm long: two rows of two, 120 wide by 80 long at    *)
(* (0,0), (120,0), (0,80), (120,80), nothing left over.                    *)

FourPalletsCase ==
    /\ pc = "done"
    /\ OnlyEuropallets(4)
    /\ truck.width >= cm(240)
    /\ truck.length >= cm(160)

C10_FourPallets ==
    FourPalletsCase =>
        /\ Footprints = << <<0, 0, cm(120), cm(80)>>,
                           <<cm(120), 0, cm(120), cm(80)>>,
                           <<0, cm(80), cm(120), cm(80)>>,
                           <<cm(120), cm(80), cm(120), cm(80)>> >>
        /\ leftover = <<>>

\* the shortest floor of the claim, filled end to end by the four pallets
C10_Witness ==
    /\ FourPalletsCase
    /\ truck.length = cm(160)
    /\ Len(placed) = 4
    /\ placed[4].y + placed[4].height = truck.length

(* C11  One big tank (diameter 100) and one small tank (diameter 60) on an  *)
(* empty 1200 x 235 vehicle form two groups, in input order; each is       *)
(* packed by the tank strategy as a square of its own diameter; both are   *)
(* placed, nothing is left over, and the two squares do not overlap.       *)

TwoTanksCase ==
    /\ pc = "done"
    /\ truck.length = cm(1200)
    /\ truck.width = cm(235)
    /\ Len(input.items) = 2
    /\ \A k \in 1..2 :
        /\ input.items[k].type = "tank"
        /\ input.items[k].number_of_items = 1
    /\ {input.items[1].subtype, input.items[2].subtype} = {"big", "small"}

C11_TwoTanks ==
    TwoTanksCase =>
        /\ Len(itemGroups) = 2
        /\ Len(placed) = 2
        /\ leftover = <<>>
        /\ \A k \in 1..2 :
            /\ Len(itemGroups[k].items) = 1
            /\ itemGroups[k].items[1].subtype = input.items[k].subtype
            /\ placed[k].item_id = input.items[k].item_id
            /\ placed[k].width
                    = IF placed[k].subtype = "big" THEN cm(100) ELSE cm(60)
            /\ placed[k].height = placed[k].width
        /\ Disjoint(placed[1], placed[2])

\* the small tank came first and the big one stands right behind it
C11_Witness ==
    /\ TwoTanksCase
    /\ placed[1].subtype = "small"
    /\ placed[2].subtype = "big"
    /\ placed[2].y = placed[1].y + placed[1].height

(* C12  With a dunnage inventory of 0 standard and 5 small, a run on a     *)
(* vehicle whose free floor holds at least five disjoint regions of        *)
(* 80 x 60 cm returns usedAirbags.standard = 0 and usedAirbags.small = 5.  *)

\* the tiles of an 80 x 60 tiling of the floor that no placement touches:
\* pairwise disjoint free regions of 80 x 60 cm
FreeTiles ==
    { t \in (0..(truck.width \div cm(80) - 1))
                \X (0..(truck.length \div cm(60) - 1)) :
        ~isOccupied(t[1] * cm(80), t[2] * cm(60), cm(80), cm(60), placed) }

C12_SmallDunnage ==
    ( /\ pc = "done"
      /\ input.airbagInventory.standard = 0
      /\ input.airbagInventory.small = 5
      /\ Cardinality(FreeTiles) >= 5 )
        => /\ result.usedAirbags.standard = 0
           /\ result.usedAirbags.small = 5

----------------------------------------------------------------------------
(* Vocabulary of the load-balance properties: comparisons of exact         *)
(* rationals by cross-multiplication                                       *)

Over(a, limit) == a.n > limit * a.d

\* | front - rear | <= 0.3 x total
Balanced(front, rear, total) ==
    10 * Abs(front.n * rear.d - rear.n * front.d) * total.d
        <= 3 * total.n * front.d * rear.d

OverAnAxle ==
    \/ Over(result.frontAxleLoad, truck.frontAxleLimit)
    \/ Over(result.rearAxleLoad, truck.rearAxleLimit)

\* a returned result whose total is above the rear-axle limit and whose
\* axle loads are balanced
HeavyBalancedCase ==
    /\ pc = "done"
    /\ Over(result.totalWeight, truck.rearAxleLimit)
    /\ Balanced(result.frontAxleLoad, result.rearAxleLoad, result.totalWeight)

(* C13  Whenever the total placed weight exceeds the rear-axle limit while *)
(* the axle loads are balanced, the label is "Overloaded" and not          *)
(* "Unbalanced" or "Optimal".                                              *)

C13_AsClaimed ==
    HeavyBalancedCase => result.loadBalance = "Overloaded"

(* C13 as amended: in that case the label is "Overloaded" exactly when an  *)
(* axle load exceeds its own limit, and "Optimal" otherwise; it is never   *)
(* "Unbalanced".                                                           *)

C13_HeavyBalanced ==
    HeavyBalancedCase =>
        /\ result.loadBalance = "Overloaded" <=> OverAnAxle
        /\ result.loadBalance = "Optimal" <=> ~OverAnAxle

\* 16000 kg carried half and half: the front axle is over its limit
C13_Witness ==
    /\ HeavyBalancedCase
    /\ result.frontAxleLoad = result.rearAxleLoad
    /\ Over(result.frontAxleLoad, truck.frontAxleLimit)
    /\ result.loadBalance = "Overloaded"

(* C14  The label of every result is "Overloaded" if an axle load exceeds  *)
(* its limit; otherwise "Unbalanced" if |front - rear| > 0.3 x total;      *)
(* otherwise "Optimal".  A result over a limit and unbalanced is           *)
(* "Overloaded".                                                           *)

C14_LabelRule ==
    pc = "done" =>
        result.loadBalance =
            IF OverAnAxle THEN "Overloaded"
            ELSE IF ~Balanced(result.frontAxleLoad, result.rearAxleLoad,
                              result.totalWeight)
                 THEN "Unbalanced"
                 ELSE "Optimal"

\* a result over the front limit with nearly all its weight on the front
C14_Witness ==
    /\ pc = "done"
    /\ OverAnAxle
    /\ ~Balanced(result.frontAxleLoad, result.rearAxleLoad,
                 result.totalWeight)
    /\ result.loadBalance = "Overloaded"
    /\ result.rearAxleLoad.n > 0

(* C15  Axle distribution: with c = y + height/2, frontRef = 0.2 x length  *)
(* and rearRef = 0.8 x length, a placement with c < frontRef puts its      *)
(* whole weight on the front axle, one with c > rearRef its whole weight   *)
(* on the rear axle, any other the share (c - frontRef)/(rearRef -         *)
(* frontRef) on the rear axle and the rest on the front axle; the axle     *)
(* loads of a result are the sums of these shares.                         *)

\* 10 x c, 10 x frontRef and 10 x rearRef of a placement, as integers
TenCentre(p) == 5 * (2 * p.y + p.height)
TenFrontRef == 2 * truck.length
TenRearRef == 8 * truck.length

BeforeFrontRef(p) == TenCentre(p) < TenFrontRef
PastRearRef(p) == TenCentre(p) > TenRearRef

RearShare(p) ==
    IF BeforeFrontRef(p) THEN RatZero
    ELSE IF PastRearRef(p) THEN p.weight
    ELSE ratMul[p.weight,
                Rat(TenCentre(p) - TenFrontRef, TenRearRef - TenFrontRef)]

FrontShare(p) == RatSub(p.weight, RearShare(p))

RECURSIVE SumRearShares(_)
SumRearShares(k) ==
    IF k = 0 THEN RatZero
    ELSE RatAdd(SumRearShares(k - 1), RearShare(placed[k]))

RECURSIVE SumFrontShares(_)
SumFrontShares(k) ==
    IF k = 0 THEN RatZero
    ELSE RatAdd(SumFrontShares(k - 1), FrontShare(placed[k]))

C15_AxleShares ==
    pc = "done" =>
        /\ result.frontAxleLoad = SumFrontShares(Len(placed))
        /\ result.rearAxleLoad = SumRearShares(Len(placed))

\* a result with a unit before the front reference, one past the rear
\* reference and one in between that is split unevenly
C15_Witness ==
    /\ pc = "done"
    /\ \E i \in Indices(placed) : BeforeFrontRef(placed[i])
    /\ \E i \in Indices(placed) : PastRearRef(placed[i])
    /\ \E i \in Indices(placed) :
        /\ ~BeforeFrontRef(placed[i])
        /\ ~PastRearRef(placed[i])
        /\ RearShare(placed[i]) # FrontShare(placed[i])
        /\ RearShare(placed[i]).n > 0

----------------------------------------------------------------------------
(* Vocabulary of the record-store properties                               *)

StoredIds(m) == {m[i].value.id : i \in 1..Len(m)}

DistinctIds(m) ==
    \A i \in 1..Len(m) : \A j \in 1..Len(m) :
        i # j => m[i].value.id # m[j].value.id

\* the ids returned so far start at 1 and each is above all earlier ones
Ascending(log) ==
    /\ log # <<>> => log[1] = 1
    /\ \A i \in 1..Len(log) : \A j \in 1..Len(log) : i < j => log[i] < log[j]

Returned(log) == {log[i] : i \in 1..Len(log)}

IdsKept ==
    /\ DistinctIds(this_items)
    /\ Ascending(itemIds)
    /\ StoredIds(this_items) \subseteq Returned(itemIds)
    /\ DistinctIds(this_optimizationResults)
    /\ Ascending(resultIds)
    /\ StoredIds(this_optimizationResults) \subseteq Returned(resultIds)

ItemRequest == reply.op \in {"createItem", "deleteItem", "getItems"}

(* C16  After any sequence of createItem and deleteItem calls the stored   *)
(* items have distinct ids, each createItem returns an id above every id   *)
(* returned before, starting at 1, and a freed id is never assigned again; *)
(* the same holds for optimization results; and a request on items never   *)
(* changes the stored results or their ids.                                *)

C16_StoreIds ==
    [][ /\ IdsKept'
        /\ ItemRequest' =>
            UNCHANGED <<this_optimizationResults, this_currentResultId,
                        resultIds>> ]_vars

\* an item created while an earlier id is free again, next to stored results
C16_Witness ==
    /\ reply.op = "createItem"
    /\ reply.status = 200
    /\ reply.id = 3
    /\ MapKeys(this_items) = {1, 3}
    /\ Len(this_optimizationResults) = 2

(* C17  deleteItem(id) returns true exactly when an item with that id is   *)
(* stored, removes that item and no other, and a delete of an absent id    *)
(* (a second delete of the same id included) returns false and leaves the  *)
(* store unchanged; the DELETE route answers success for true and 404 for  *)
(* false.                                                                  *)

\* the entries of the map other than the one of the given id, in order
Without(m, id) ==
    LET kept(e) == e.value.id # id
    IN  SelectSeq(m, kept)

C17_DeleteIdempotent ==
    [][ ( /\ reply'.op = "deleteItem"
          /\ <<this_items, reply>>' # <<this_items, reply>> )
        => /\ reply'.status = IF reply'.id \in StoredIds(this_items)
                              THEN 200 ELSE 404
           /\ this_items' = Without(this_items, reply'.id)
           /\ reply'.id \notin StoredIds(this_items')
           /\ reply'.status = 404 => this_items' = this_items
           /\ UNCHANGED <<this_currentItemId, this_optimizationResults,
                          this_currentResultId, itemIds, resultIds>> ]_vars

\* the second delete of id 2 has answered 404; items 1 and 3 are still there
C17_Witness ==
    /\ reply = Reply("deleteItem", 404, 2, <<>>)
    /\ 2 \in Returned(itemIds)
    /\ MapKeys(this_items) = {1, 3}

(* C18  Isolation of optimize calls: a call never changes its input, and   *)
(* a call made with the first caller's input after a call with another     *)
(* caller's input returns what the first caller's call returned when it    *)
(* ran alone.                                                              *)

C18_Isolation ==
    [][ /\ pc # "done" => input' = input
        /\ (pc' = "done" /\ mode' = "back") =>
            /\ input' = alone'.input
            /\ result' = alone'.output ]_vars

\* the first input has been run again after the other caller's input; its
\* result has placements and leftovers and differs from the other result
C18_Witness ==
    /\ pc = "done"
    /\ mode = "back"
    /\ input # OtherInput
    /\ placed # <<>>
    /\ leftover # <<>>
    /\ result.gaps # <<>>
    /\ prev # result
    /\ prev.placedItems # <<>>

(* C19  High-water-mark banding: each group starts at the maximum          *)
(* y + height of the placements of the earlier groups, so every placement  *)
(* of a later group has y >= y + height of every placement of an earlier   *)
(* group.                                                                  *)

SameGroup(a, b) == a.type = b.type /\ a.subtype = b.subtype

InStrategy ==
    pc \in {"palletConfig", "palletRow", "palletCol", "palletRowEnd",
            "tankRow", "tankCol", "genericItem", "genericProbe"}

C19_Banding ==
    pc # "optimize" =>
        /\ \A i \in Indices(placed) : \A j \in Indices(placed) :
            (i < j /\ ~SameGroup(placed[i], placed[j]))
                => placed[j].y >= placed[i].y + placed[i].height
        /\ InStrategy =>
            \A i \in Indices(placed) :
                ~SameGroup(placed[i], sampleItem)
                    => currentY >= placed[i].y + placed[i].height

\* two groups: the first fills two rows, the second starts exactly where
\* the second row of the first ends and is itself placed side by side
C19_Witness ==
    /\ pc = "done"
    /\ \E i \in Indices(placed) : \E k \in Indices(placed) :
        \E j \in Indices(placed) :
            /\ i < k /\ k < j
            /\ SameGroup(placed[i], placed[k])
            /\ ~SameGroup(placed[k], placed[j])
            /\ placed[i].y < placed[k].y
            /\ placed[j].y = placed[k].y + placed[k].height
            /\ placed[j].x > 0

(* C20  Grouping and expansion: an item of quantity q >= 1 and weight w    *)
(* becomes q units of weight w/q; units are grouped by (type, subtype);    *)
(* groups are processed in the order in which their pair first appears in  *)
(* the input and units keep input order inside a group; so placedItems     *)
(* lists the placed units of an earlier-seen group before any unit of a    *)
(* later-seen group.                                                       *)

PairOf(u) == <<u.type, u.subtype>>

\* the q units of one input item
UnitsOf(it) ==
    [n \in 1..it.number_of_items |->
        [item_id |-> it.item_id, type |-> it.type, subtype |-> it.subtype,
         number_of_items |-> 1,
         weight_kg |-> Rat(it.weight_kg, it.number_of_items)]]

\* the units of the first k input items, in input order
RECURSIVE AllUnits(_)
AllUnits(k) ==
    IF k = 0 THEN <<>> ELSE AllUnits(k - 1) \o UnitsOf(input.items[k])

\* the (type, subtype) pairs of the first k input items, each once, in the
\* order of first appearance
RECURSIVE PairOrder(_)
PairOrder(k) ==
    IF k = 0 THEN <<>>
    ELSE LET before == PairOrder(k - 1)
             pair == PairOf(input.items[k])
         IN  IF \E g \in Indices(before) : before[g] = pair
             THEN before ELSE Append(before, pair)

\* the units of one pair, in input order
UnitsOfPair(pair) ==
    LET ofPair(u) == PairOf(u) = pair
    IN  SelectSeq(AllUnits(Len(input.items)), ofPair)

PairRank(u) ==
    CHOOSE g \in Indices(PairOrder(Len(input.items))) :
        PairOrder(Len(input.items))[g] = PairOf(u)

ItemRank(u) ==
    CHOOSE k \in Indices(input.items) : input.items[k].item_id = u.item_id

C20_Grouping ==
    pc # "optimize" =>
        /\ Len(itemGroups) = Len(PairOrder(Len(input.items)))
        /\ \A g \in Indices(itemGroups) :
            itemGroups[g].items
                = UnitsOfPair(PairOrder(Len(input.items))[g])
        /\ \A i \in Indices(placed) : \A j \in Indices(placed) :
            i < j =>
                /\ PairRank(placed[i]) <= PairRank(placed[j])
                /\ ItemRank(placed[i]) <= ItemRank(placed[j])
                /\ \E n \in Indices(input.items) :
                    placed[i].weight = UnitsOf(input.items[n])[1].weight_kg

\* two groups with placed units, the units of the first of fractional weight
C20_Witness ==
    /\ pc = "done"
    /\ Len(itemGroups) = 2
    /\ Len(placed) >= 4
    /\ placed[1].weight.d = 3
    /\ PairRank(placed[1]) = 1
    /\ PairRank(placed[Len(placed)]) = 2
    /\ leftover # <<>>

----------------------------------------------------------------------------
(* C21  Tank zig-zag layout: with k = floor(width / diameter) and left     *)
(* margin m = (width - k x diameter) / 2, the first row holds k tanks at   *)
(* x = m + i x diameter; when a tank group has more than k units (k >= 2)  *)
(* and the vehicle is long enough for a second row, the second row, at     *)
(* 0.866 x diameter, holds k - 1 tanks (or all remaining tanks if fewer)   *)
(* at x = m + diameter / 2 + i x diameter.                                 *)

ZigDiameter == getItemDimensions(input.items[1]).width
ZigPerRow == truck.width \div ZigDiameter
ZigMargin == (truck.width - ZigPerRow * ZigDiameter) \div 2
ZigSpacing == (ZigDiameter * 866) \div 1000

\* the cargo is one group of catalog tanks, of more units than one row
\* holds, on a floor long enough for a second row
ZigZagCase ==
    /\ pc = "done"
    /\ input.items # <<>>
    /\ \A i \in Indices(input.items) :
        /\ input.items[i].type = "tank"
        /\ InCatalog(input.items[i])
        /\ input.items[i].subtype = input.items[1].subtype
    /\ ZigPerRow >= 2
    /\ InputQuantity(input.items) > ZigPerRow
    /\ ZigSpacing + ZigDiameter <= truck.length

\* the x positions of the placed units standing at y
RowAt(y) == {placed[i].x : i \in {j \in Indices(placed) : placed[j].y = y}}

C21_ZigZag ==
    ZigZagCase =>
        /\ RowAt(0) = {ZigMargin + i * ZigDiameter : i \in 0..(ZigPerRow - 1)}
        /\ RowAt(ZigSpacing)
            = {ZigMargin + ZigDiameter \div 2 + i * ZigDiameter :
                i \in 0..(Min(ZigPerRow - 1,
                              InputQuantity(input.items) - ZigPerRow) - 1)}

(* C22  Seven europallets as the only cargo on an empty 1360 x 248         *)
(* vehicle are all placed: one row of 2 in long orientation (120 across    *)
(* the width) followed by rows of short-oriented pallets (80 across the    *)
(* width, up to 3 per row) holding the remaining 5; nothing is left over.  *)

SevenPalletsCase ==
    /\ pc = "done"
    /\ OnlyEuropallets(7)
    /\ truck.length = cm(1360)
    /\ truck.width = cm(248)

\* the number of placed units standing at y, and of footprint w x h
RowCount(y) == Cardinality({j \in Indices(placed) : placed[j].y = y})
Oriented(w, h) ==
    Cardinality({j \in Indices(placed) :
                    placed[j].width = w /\ placed[j].height = h})

C22_SevenPallets ==
    SevenPalletsCase =>
        /\ Len(placed) = 7
        /\ leftover = <<>>
        /\ Footprint(placed[1]) = <<0, 0, cm(120), cm(80)>>
        /\ Footprint(placed[2]) = <<cm(120), 0, cm(120), cm(80)>>
        /\ \A i \in 3..7 :
            /\ placed[i].width = cm(80)
            /\ placed[i].height = cm(120)
            /\ placed[i].y >= cm(80)
            /\ RowCount(placed[i].y) <= 3

(* C23  Bulk case: thirty-three europallets as the only cargo on an empty  *)
(* 1360 x 248 vehicle are placed as 32 pallets in short orientation in     *)
(* rows of 2 plus 1 pallet in long orientation, all inside the vehicle,    *)
(* with nothing left over.                                                 *)

BulkCase ==
    /\ pc = "done"
    /\ OnlyEuropallets(33)
    /\ truck.length = cm(1360)
    /\ truck.width = cm(248)

C23_Bulk ==
    BulkCase =>
        /\ Len(placed) = 33
        /\ leftover = <<>>
        /\ Oriented(cm(80), cm(120)) = 32
        /\ Oriented(cm(120), cm(80)) = 1
        /\ \A i \in Indices(placed) :
            /\ InsideFloor(placed[i], truck)
            /\ placed[i].width = cm(80)
                => RowCount(placed[i].y) = 2

(* C24  Pallet fallback: a europallet group of n units with n outside the  *)
(* table (1, 2, 10..32, 34 and above), starting at high-water mark Y0 on   *)
(* a vehicle of width W >= 160 and length L, is placed in short            *)
(* orientation (80 wide, 120 long) in rows of k = floor(W / 80) with no    *)
(* gap, rows at y = Y0, Y0 + 120, ...; exactly                             *)
(* min(n, k x floor((L - Y0) / 120)) pallets are placed and the rest are   *)
(* returned as leftovers.  When floor(W / 80) < 2 the long orientation     *)
(* (120 wide, 80 long) with floor(W / 120) per row is used instead.        *)

EuroPair == <<"pallet", "europallet">>
EuroCount == Len(UnitsOfPair(EuroPair))
InTable(n) == n \in 3..9 \/ n = 33

\* the high-water mark the europallet group started at: the largest
\* y + height of the placed units of the groups seen before it
EuroStart ==
    LET rank == CHOOSE g \in Indices(PairOrder(Len(input.items))) :
                    PairOrder(Len(input.items))[g] = EuroPair
        Earlier(p) == PairRank(p) < rank
    IN  MaxExtent(SelectSeq(placed, Earlier), 0)

\* the pallets tile rows of k footprints w x h from Y0 on, as many rows as
\* the rest of the floor holds
FallbackTiling(n, k, w, h) ==
    LET fitting == Min(n, k * ((truck.length - EuroStart) \div h))
        pallets == SelectSeq(placed, isEuropallet)
    IN  /\ Len(pallets) = fitting
        /\ \A j \in 1..fitting :
            Footprint(pallets[j])
                = <<((j - 1) % k) * w, EuroStart + ((j - 1) \div k) * h, w, h>>
        /\ Len(SelectSeq(leftover, isEuropallet)) = n - fitting

FallbackCase ==
    /\ pc = "done"
    /\ EuroCount >= 1
    /\ ~InTable(EuroCount)

C24_PalletFallback ==
    FallbackCase =>
        /\ truck.width >= cm(160)
            => FallbackTiling(EuroCount, truck.width \div palletWidth,
                              palletWidth, palletLength)
        /\ (truck.width \div palletWidth < 2
                /\ truck.width \div palletLength >= 1)
            => FallbackTiling(EuroCount, truck.width \div palletLength,
                              palletLength, palletWidth)

\* two europallets behind a custom pallet, side by side at the high-water
\* mark 100
C24_Witness ==
    /\ FallbackCase
    /\ truck.width >= cm(160)
    /\ EuroStart = cm(100)
    /\ EuroCount = 2
    /\ Len(placed) = 3
    /\ Footprint(placed[3]) = <<cm(80), cm(100), cm(80), cm(120)>>

\* ten europallets on a floor that holds two rows of three
C24_Leftovers ==
    /\ FallbackCase
    /\ EuroCount = 10
    /\ Len(placed) = 6
    /\ Len(leftover) = 4

(* C25  Generic strategy (EWC crates, custom pallets): a group of n units  *)
(* with catalog footprint w x h starting at high-water mark Y0 on a        *)
(* vehicle W x L is placed row by row, each unit at the first free x of    *)
(* the current row (probing x = 0, 20, 40, ...), or else once at x = 0 of  *)
(* a new row opened at currentY + rowHeight; for the catalog footprints    *)
(* (w a multiple of 20) exactly min(n, floor(W / w) x floor((L - Y0) / h)) *)
(* units are placed, tiling rows from Y0 on, and the rest are leftovers.   *)

GenericPairs ==
    { <<"pallet", "custom">>, <<"EWC", "800x1200">>, <<"EWC", "1000x1200">> }

\* the (type, subtype) pairs of the cargo
InputPairs == {PairOf(input.items[i]) : i \in Indices(input.items)}

\* the high-water mark the group of the pair started at
GroupStart(pair) ==
    LET rank == CHOOSE g \in Indices(PairOrder(Len(input.items))) :
                    PairOrder(Len(input.items))[g] = pair
        Earlier(p) == PairRank(p) < rank
    IN  MaxExtent(SelectSeq(placed, Earlier), 0)

GenericTiling(pair) ==
    LET OfPair(u) == PairOf(u) = pair
        units == SelectSeq(placed, OfPair)
        n == Len(UnitsOfPair(pair))
        w == ITEM_CONFIGURATIONS[pair[1]][pair[2]].width
        h == ITEM_CONFIGURATIONS[pair[1]][pair[2]].height
        Y0 == GroupStart(pair)
        across == truck.width \div w
        fitting == Min(n, across * ((truck.length - Y0) \div h))
    IN  /\ Len(units) = fitting
        /\ \A j \in 1..fitting :
            Footprint(units[j])
                = <<((j - 1) % across) * w, Y0 + ((j - 1) \div across) * h,
                    w, h>>
        /\ Len(SelectSeq(leftover, OfPair)) = n - fitting

C25_GenericTiling ==
    pc = "done" =>
        \A pair \in GenericPairs \cap InputPairs : GenericTiling(pair)

\* custom pallets behind a row of small tanks: two side by side at the
\* high-water mark 60 and the third in the row opened behind them
C25_Witness ==
    /\ pc = "done"
    /\ <<"pallet", "custom">> \in InputPairs
    /\ GroupStart(<<"pallet", "custom">>) = cm(60)
    /\ \E i \in Indices(placed) :
        /\ i > 1
        /\ Footprint(placed[i]) = <<0, cm(160), cm(100), cm(100)>>
        /\ Footprint(placed[i - 1]) = <<cm(100), cm(60), cm(100), cm(100)>>

(* C26  Gap scan: the gaps list of a result holds exactly the 20 x 20      *)
(* grid cells at (x, y), x and y multiples of 20, 0 <= x < width,          *)
(* 0 <= y < length, that overlap no placement; every gap measures          *)
(* 20 x 20, no gap overlaps a placement, no free cell is missing and none  *)
(* is listed twice.                                                        *)

\* the multiples of 20 below the extent
GridLines(extent) ==
    {i * cm(20) : i \in {j \in 0..(extent \div cm(20)) : j * cm(20) < extent}}

FreeCells ==
    {c \in {[x |-> x, y |-> y, width |-> cm(20), height |-> cm(20)] :
                x \in GridLines(truck.width), y \in GridLines(truck.length)} :
        \A i \in Indices(placed) : Disjoint(c, placed[i])}

C26_GapScan ==
    pc = "done" =>
        /\ {result.gaps[i] : i \in Indices(result.gaps)} = FreeCells
        /\ Len(result.gaps) = Cardinality(FreeCells)

\* a floor 235 wide with cargo on it: the cell of the last, partial column
\* at x = 220 is listed, the cell under the first placement is not
C26_Witness ==
    /\ pc = "done"
    /\ truck.width = cm(235)
    /\ placed # <<>>
    /\ \E i \in Indices(result.gaps) :
        result.gaps[i].x = cm(220) /\ result.gaps[i].y = 0
    /\ \A i \in Indices(result.gaps) :
        ~(result.gaps[i].x = placed[1].x /\ result.gaps[i].y = placed[1].y)

(* C28  Axle-load conservation: in every result frontAxleLoad +            *)
(* rearAxleLoad equals totalWeight (the weight of each placed unit is      *)
(* split between the two axles, nothing lost or added), and both loads     *)
(* are non-negative when all weights are non-negative.                     *)

RatEqual(a, b) == a.n * b.d = b.n * a.d

C28_AxleConservation ==
    pc = "done" =>
        /\ RatEqual(RatAdd(result.frontAxleLoad, result.rearAxleLoad),
                    result.totalWeight)
        /\ result.frontAxleLoad.n >= 0 /\ result.frontAxleLoad.d > 0
        /\ result.rearAxleLoad.n >= 0 /\ result.rearAxleLoad.d > 0

\* units of fractional weight, one of them split between the axles, and
\* both axles loaded
C28_Witness ==
    /\ pc = "done"
    /\ Len(placed) >= 2
    /\ result.totalWeight.d > 1
    /\ result.frontAxleLoad.n > 0
    /\ result.rearAxleLoad.n > 0
    /\ result.frontAxleLoad # result.rearAxleLoad
    /\ \E i \in Indices(placed) :
        ~BeforeFrontRef(placed[i]) /\ ~PastRearRef(placed[i])
            /\ RearShare(placed[i]).n > 0

(* C29  In every result spaceUtilization is                                *)
(* round(100 x sum of placed footprint areas / (length x width)) and lies  *)
(* between 0 and 100 inclusive.                                            *)

\* the sum of the areas of the placed footprints, in cm2
RECURSIVE PlacedArea(_)
PlacedArea(k) ==
    IF k = 0 THEN 0
    ELSE PlacedArea(k - 1) + Area(placed[k].width, placed[k].height)

FloorArea == Area(truck.length, truck.width)

\* u is the integer nearest to p / q, halves going up
Nearest(u, p, q) == 2 * q * u <= 2 * p + q /\ 2 * p + q < 2 * q * (u + 1)

C29_SpaceUtilization ==
    pc = "done" =>
        /\ Nearest(result.spaceUtilization,
                   100 * PlacedArea(Len(placed)), FloorArea)
        /\ result.spaceUtilization >= 0
        /\ result.spaceUtilization <= 100

\* a floor two thirds full: 66.67 per cent is reported as 67
C29_Witness ==
    /\ pc = "done"
    /\ 3 * PlacedArea(Len(placed)) = 2 * FloorArea
    /\ result.spaceUtilization = 67

(* C30  Placement is independent of weight: two optimize runs whose        *)
(* inputs differ only in the weights of the items (same ids, types,        *)
(* subtypes, quantities, order, vehicle and inventory) return the same     *)
(* placed units at the same positions, the same leftovers and the same     *)
(* gaps; maxWeight and the axle limits never leave a unit unplaced, so     *)
(* totalWeight may exceed maxWeight and weightUtilization may exceed 100.  *)

\* a placed unit and a leftover unit without their weight
Unweighed(p) ==
    [item_id |-> p.item_id, type |-> p.type, subtype |-> p.subtype,
     x |-> p.x, y |-> p.y, width |-> p.width, height |-> p.height,
     zone |-> p.zone]
Unweighted(u) ==
    [item_id |-> u.item_id, type |-> u.type, subtype |-> u.subtype,
     number_of_items |-> u.number_of_items]

C30_WeightBlind ==
    (pc = "done" /\ mode = "heavier") =>
        /\ [i \in Indices(placed) |-> Unweighed(placed[i])]
            = [i \in Indices(prev.placedItems) |->
                    Unweighed(prev.placedItems[i])]
        /\ [i \in Indices(leftover) |-> Unweighted(leftover[i])]
            = [i \in Indices(prev.remainingItems) |->
                    Unweighted(prev.remainingItems[i])]
        /\ result.gaps = prev.gaps
        /\ result.usedAirbags = prev.usedAirbags
        /\ result.spaceUtilization = prev.spaceUtilization

\* the heavier run carries more than maxWeight on the same three footprints
C30_Witness ==
    /\ pc = "done"
    /\ mode = "heavier"
    /\ Len(placed) = 3
    /\ result.totalWeight.n > truck.maxWeight * result.totalWeight.d
    /\ result.weightUtilization > 100
    /\ prev.weightUtilization < 100
    /\ Len(prev.placedItems) = 3

(* C27  In the planner page, whenever the items of the order change (an    *)
(* item is added, edited or removed, or all items are cleared) the         *)
(* optimization result computed before is cleared, so a displayed result   *)
(* always corresponds to the item list it was computed from.               *)

C27_ResultMatchesItems ==
    (optimizationResult # NoOutput /\ ~isOptimizing)
        => /\ input.items = home_items
           /\ home_items = MapValues(this_items)

====
